---- MODULE Spec2Model ----
(***************************************************************************)
(* State-machine model of the transcription result cache                   *)
(* (src/src/cache/transcription_cache.py, src/src/cache/eviction.py).      *)
(*                                                                         *)
(* Strings.  A cache key string "file_hash:provider:settings_hash" is      *)
(* represented by the sequence of its maximal ':'-free segments, so        *)
(* str(CacheKey) is the concatenation of the segment sequences of its      *)
(* three fields and key_str.split(":") is the sequence itself.  A provider *)
(* name is itself a segment sequence (one segment unless it holds a ':').  *)
(*                                                                         *)
(* Time.  datetime.now() is the variable now, in model time units; every   *)
(* call of the public API and every step of the environment takes one      *)
(* unit, so that the model is bounded by MaxTime.                          *)
(*                                                                         *)
(* Threads.  Each thread is idle or inside put().  The body of get,        *)
(* invalidate and clear is one `with self._lock:` block and is one action  *)
(* guarded by the lock; put's locked section is split at its loop          *)
(* iterations so that the eviction loops can be observed step by step.     *)
(***************************************************************************)
EXTENDS Integers, Sequences, FiniteSets, TLC

(* ------------------------------ bounds --------------------------------- *)
NumTiers == 2
MaxEntriesBound == 2
MaxSizeBytes == 3
MaxTime == 4
MaxTimeThreads == 3
TtlSeconds == 1

Threads == {"t1", "t2"}
Paths == {"a.mp3", "b.mp3"}
ModifiedPaths == {"a.mp3"}
Hashes == {"h1", "h2"}
Metas == {"m1", "m2"}
Providers == {<<"A">>, <<"B">>}
\* options maps as callers build them: (name, value) items in insertion order
OptLangModel == << <<"lang", "en">>, <<"model", "large">> >>
OptModelLang == << <<"model", "large">>, <<"lang", "en">> >>
OptLang == << <<"lang", "en">> >>
OptEmpty == << >>
Options == {OptLangModel}
OptionMaps == {OptLangModel, OptModelLang, OptLang, OptEmpty}
Data == {"v1"}
Sizes == {1, MaxSizeBytes - 1, MaxSizeBytes + 1}

None == "None"
NoThread == "NoThread"
\* ttl = None (never expires), kept an integer so that it compares with ttls
NoTtl == 0 - 1
TtlArgs == {NoTtl, TtlSeconds}

VARIABLES
    cfg,     \* constructor arguments: ntiers, max_entries, max_size_bytes, default_ttl;
             \* faults: whether tier 0 can report a failed write
    tiers,   \* self.backends: tier index -> (key string -> CacheEntry)
    stats,   \* self.stats: CacheStats
    lock,    \* owner of self._lock (RLock), or NoThread
    pc,      \* per thread: position inside put(), or "idle"
    req,     \* per thread: locals of the put() in progress (key_str, entry, size)
    now,     \* datetime.now()
    files,   \* the file system: path -> content hash and (mtime, size) tuple
    memo,    \* CacheKey._file_hash_cache: (path, meta) -> hash
    last,    \* the call that completed last and what it returned
    snap,    \* tier 0 and stats as they were when the running put took the lock
    order,   \* the keys of tier 0's `_cache` OrderedDict, first key first, when
             \* tier 0 is such a backend (cfg.ordered); empty otherwise
    econf,   \* EventConsumerConfig, and the kind of queue the consumer was given
    queue,   \* EventConsumer.queue: the items waiting, oldest first
    consumer,\* EventConsumer: _running, _batch, _last_progress, _stopped, position of run()
    stopper, \* position of the task that calls EventConsumer.stop()
    produced,\* number of events the producers have offered to the queue
    dequeued,\* history: the events run() took from the queue, in order
    batches, \* history: the lists on_batch was called with, in order
    heap,    \* the objects of the TUI: address -> AppState, list or dict
    app,     \* address of the current AppState (self.app.state)
    logged   \* history: every LogEntry appended to logs, in order

cacheVars == <<cfg, tiers, stats, lock, pc, req, now, files, memo, last, snap,
               order>>
tuiVars == <<econf, queue, consumer, stopper, produced, dequeued, batches,
             heap, app, logged>>
vars == <<cacheVars, tuiVars>>

(* --------------------------- small helpers ----------------------------- *)
EmptyMap == [k \in {} |-> None]
Keys(f) == DOMAIN f
MapPut(f, k, v) == [x \in (DOMAIN f) \cup {k} |-> IF x = k THEN v ELSE f[x]]
MapDel(f, k) == [x \in (DOMAIN f) \ {k} |-> f[x]]

RECURSIVE SetSum(_, _)
SetSum(S, f) ==
    IF S = {} THEN 0
    ELSE LET x == CHOOSE y \in S : TRUE IN f[x] + SetSum(S \ {x}, f)

TierIdx == 0 .. (NumTiers - 1)
ActiveTiers == 0 .. (cfg.ntiers - 1)

(* ------------------------------ CacheKey ------------------------------- *)
\* CacheKey.__str__: f"{file_hash}:{provider}:{settings_hash}"
KeyStr(file_hash, provider, settings_hash) ==
    <<file_hash>> \o provider \o <<settings_hash>>

\* key_str.split(":")
Split(key_str) == key_str

\* Python's order on the option names
OptNameOrder == <<"lang", "model">>

\* json.dumps(settings, sort_keys=True): the items of the dict in the order
\* of their names, from the j-th name on
RECURSIVE SortedItems(_, _)
SortedItems(j, settings) ==
    IF j > Len(OptNameOrder) THEN << >>
    ELSE LET at == {i \in 1 .. Len(settings) : settings[i][1] = OptNameOrder[j]} IN
         (IF at = {} THEN << >> ELSE <<settings[CHOOSE i \in at : TRUE]>>)
         \o SortedItems(j + 1, settings)

JsonDumpsSorted(settings) == SortedItems(1, settings)

\* hashlib.sha256(settings_str.encode()).hexdigest()[:16]: one digest per
\* serialized string
Sha16(settings_str) ==
    CASE settings_str = OptLangModel -> "o1"
      [] settings_str = OptLang -> "o2"
      [] settings_str = OptEmpty -> "o3"
      [] settings_str = OptModelLang -> "o4"

\* (mutant) the options are serialized in their insertion order
SettingsHash_Unsorted(settings) == Sha16(settings)

\* settings_hash of CacheKey.from_file
SettingsHash(settings) == Sha16(JsonDumpsSorted(settings))

\* CacheKey._hash_file: the memoized hash when (path, mtime, size) is in the
\* memo, else the hash of the content, which is then stored in the memo.
HashFile(m, path) ==
    LET ck == <<path, files[path].meta>> IN
    IF ck \in DOMAIN m
    THEN [hash |-> m[ck], memo |-> m]
    ELSE [hash |-> files[path].content,
          memo |-> MapPut(m, ck, files[path].content)]

\* CacheKey.from_file followed by str()
KeyFromFile(m, path, provider, settings) ==
    LET hf == HashFile(m, path) IN
    [key |-> KeyStr(hf.hash, provider, SettingsHash(settings)), memo |-> hf.memo]

\* (mutant) the path is compared with the wrong field of the memo key
ClearHashCache_WrongField(m, path) ==
    IF path = None THEN EmptyMap
    ELSE [ck \in {c \in DOMAIN m : c[2] # path} |-> m[ck]]

\* CacheKey.clear_hash_cache
ClearHashCache(m, path) ==
    IF path = None THEN EmptyMap
    ELSE [ck \in {c \in DOMAIN m : c[1] # path} |-> m[ck]]

(* ------------------------------ CacheEntry ----------------------------- *)
NewEntry(value, size, ttl, t) ==
    [value |-> value, size |-> size, created_at |-> t, accessed_at |-> t,
     access_count |-> 0, ttl |-> ttl]

\* (mutant) an entry expires as soon as its age reaches its ttl
IsExpired_Inclusive(e, t) ==
    IF e.ttl = NoTtl THEN FALSE ELSE (t - e.created_at) >= e.ttl

\* CacheEntry.is_expired
IsExpired(e, t) ==
    IF e.ttl = NoTtl THEN FALSE ELSE (t - e.created_at) > e.ttl

\* CacheEntry.touch
Touch(e, t) == [e EXCEPT !.accessed_at = t, !.access_count = @ + 1]

(* ------------------------- CacheEntry persistence ---------------------- *)
\* A value is its Python type and its content.  An entry as to_dict sees it
\* has its key and metadata besides the fields of NewEntry.
HasToDict(value) == value.type = "TranscriptionResult"

\* json.dumps(value) succeeds
JsonSerializable(value) == value.type \in {"dict", "str"}

\* TranscriptionResult.to_dict / TranscriptionResult.from_dict
ResultToDict(value) == [type |-> "dict", content |-> <<"fields", value.content>>]
ResultFromDict(d) == [type |-> "TranscriptionResult", content |-> d.content[2]]

\* str(value), e.g. "b'...'" for bytes
Str(value) == [type |-> "str", content |-> <<"str", value.type, value.content>>]

\* datetime.isoformat / datetime.fromisoformat
IsoFormat(t) == <<"iso", t>>
FromIsoFormat(text) == text[2]

\* CacheKey.to_dict / CacheKey.from_dict
KeyToDict(key) ==
    [file_hash |-> key.file_hash, provider |-> key.provider,
     settings_hash |-> key.settings_hash]
KeyFromDict(data) ==
    [file_hash |-> data.file_hash, provider |-> data.provider,
     settings_hash |-> data.settings_hash]

\* CacheEntry.to_dict
ToDict(entry) ==
    [key |-> KeyToDict(entry.key),
     value |-> IF HasToDict(entry.value) THEN ResultToDict(entry.value)
               ELSE IF JsonSerializable(entry.value) THEN entry.value
               ELSE Str(entry.value),
     value_type |-> entry.value.type,
     size |-> entry.size,
     created_at |-> IsoFormat(entry.created_at),
     accessed_at |-> IsoFormat(entry.accessed_at),
     access_count |-> entry.access_count,
     ttl |-> entry.ttl,
     metadata |-> entry.metadata]

\* CacheEntry.from_dict, the value: rebuilt when the recorded type is
\* TranscriptionResult and the value is a dict, else taken as it is
FromDictValue(data) ==
    IF data.value_type = "TranscriptionResult" /\ data.value.type = "dict"
    THEN ResultFromDict(data.value)
    ELSE data.value

\* CacheEntry.from_dict
FromDict(data) ==
    [key |-> KeyFromDict(data.key),
     value |-> FromDictValue(data),
     size |-> data.size,
     created_at |-> FromIsoFormat(data.created_at),
     accessed_at |-> FromIsoFormat(data.accessed_at),
     access_count |-> data.access_count,
     ttl |-> data.ttl,
     metadata |-> data.metadata]

(* ------------------------------ codec ---------------------------------- *)
\* compress_value / decompress_value (src/cache/compression.py)
Compress(value) == [codec |-> "z", data |-> value.data, len |-> value.len]
\* decompress_value yields None (the empty sequence here) for a payload it
\* cannot decode
Decompress(b) ==
    IF b.codec = "z" THEN <<[data |-> b.data, len |-> b.len]>> ELSE << >>

EnableCompression == TRUE

\* TranscriptionCache._prepare_cache_value
PrepareCacheValue(value) == IF EnableCompression THEN Compress(value) ELSE value

\* TranscriptionCache._calculate_size: len(bytes)
CalculateSize(cached) == cached.len

\* (mutant) a value whose size equals max_size_bytes is refused as well
ValidateEntrySize_Inclusive(size) == ~(size >= cfg.max_size_bytes)

\* TranscriptionCache._validate_entry_size
ValidateEntrySize(size) == ~(size > cfg.max_size_bytes)

\* TranscriptionCache._create_cache_entry: ttl=ttl or self.default_ttl
\* (None and 0 are both falsy)
CreateCacheEntry(cached, size, ttl, t) ==
    NewEntry(cached, size,
             IF ttl # NoTtl /\ ttl # 0 THEN ttl ELSE cfg.default_ttl, t)

(* ------------------------------ StorageTier ---------------------------- *)
\* The CacheBackend contract: get, put, delete, keys over a key -> entry map.
BackendHas(b, k) == k \in DOMAIN b
BackendGet(b, k) == b[k]
BackendPut(b, k, e) == MapPut(b, k, e)
BackendDeleteOk(b, k) == k \in DOMAIN b
BackendDelete(b, k) == MapDel(b, k)
BackendKeys(b) == DOMAIN b
\* the backend's OrderedDict `_cache`, first key first; the contract has no
\* such attribute, which is the empty sequence here
BackendOrder(b) ==
    IF cfg.ordered THEN SelectSeq(order, LAMBDA k : k \in DOMAIN b) ELSE << >>

RECURSIVE KeysToSeq(_)
KeysToSeq(S) ==
    IF S = {} THEN << >>
    ELSE LET x == CHOOSE y \in S : TRUE IN <<x>> \o KeysToSeq(S \ {x})

\* `_cache` after a step that took tier 0 from `before` to `after`: an
\* OrderedDict drops a deleted key, keeps the place of a key that is assigned
\* again or whose entry is changed in place, and appends a new key; the keys
\* in `reinserted` were deleted and put again within the step
OrderAfter(before, after, reinserted) ==
    IF ~cfg.ordered THEN << >>
    ELSE SelectSeq(order, LAMBDA k : k \in DOMAIN after /\ k \notin reinserted)
            \o KeysToSeq((DOMAIN after \ DOMAIN before)
                             \cup (reinserted \cap DOMAIN after))

(* ------------------------------ eviction ------------------------------- *)
\* Python's order on str, for the segments the model uses
SegOrder == <<"A", "B", "h1", "h2", "o1", "o2", "o3", "o4">>
SegRank(s) == CHOOSE i \in 1 .. Len(SegOrder) : SegOrder[i] = s

RECURSIVE KeyLess(_, _)
KeyLess(a, b) ==
    IF a = << >> THEN b # << >>
    ELSE IF b = << >> THEN FALSE
    ELSE IF Head(a) = Head(b) THEN KeyLess(Tail(a), Tail(b))
    ELSE SegRank(Head(a)) < SegRank(Head(b))

\* (accessed_at, key) tuple comparison used by min()
TimeKeyLeq(t1, k1, t2, k2) == t1 < t2 \/ (t1 = t2 /\ (k1 = k2 \/ KeyLess(k1, k2)))

\* (mutant) the most recently accessed entry is chosen
SelectLruVictim_Mru(od, b, keys) ==
    CHOOSE k \in keys : \A j \in keys : b[j].accessed_at <= b[k].accessed_at

\* eviction.select_lru_victim
SelectLruVictim(od, b, keys) ==
    IF od # << >> THEN Head(od)
    ELSE LET resolvable == {k \in keys : BackendHas(b, k)} IN
         IF resolvable = {} THEN CHOOSE k \in keys : TRUE
         ELSE CHOOSE k \in resolvable : \A j \in resolvable :
                  TimeKeyLeq(BackendGet(b, k).accessed_at, k,
                             BackendGet(b, j).accessed_at, j)

\* `if entry:` of the selectors' loops: the keys whose entry the tier returns
Resolvable(b, keys) == {k \in keys : BackendHas(b, k)}

\* `entry.ttl` as a condition: None and 0 are both false
TtlTruthy(e) == e.ttl # NoTtl /\ e.ttl # 0

\* CacheEntry.age_seconds at time t
AgeSeconds(e, t) == t - e.created_at

\* entry.ttl - entry.age_seconds()
Remaining(e, t) == e.ttl - AgeSeconds(e, t)

\* (mutant) the entry that has the most time left is chosen
SelectTtlVictim_Longest(b, keys, t) ==
    LET with_ttl == {k \in Resolvable(b, keys) : TtlTruthy(BackendGet(b, k))} IN
    IF with_ttl = {} THEN keys
    ELSE {k \in with_ttl : \A j \in with_ttl :
              Remaining(BackendGet(b, j), t) <= Remaining(BackendGet(b, k), t)}

\* eviction.select_ttl_victim at time t: the keys the call can return. The
\* loop keeps the first key that is strictly below every key before it, in
\* the iteration order of `keys`, which is any order; next(iter(keys)) is any
\* key
SelectTtlVictim(b, keys, t) ==
    LET with_ttl == {k \in Resolvable(b, keys) : TtlTruthy(BackendGet(b, k))} IN
    IF with_ttl = {} THEN keys
    ELSE {k \in with_ttl : \A j \in with_ttl :
              Remaining(BackendGet(b, k), t) <= Remaining(BackendGet(b, j), t)}

\* (mutant) the first key in key order is returned whatever the entries hold
SelectByMin_FirstKey(b, keys, field) ==
    {CHOOSE k \in keys : \A j \in keys : k = j \/ KeyLess(k, j)}

\* min(entries)[1] over (field, key) tuples of the resolvable keys, and
\* next(iter(keys)) when there are none: the keys the call can return
SelectByMin(b, keys, field) ==
    LET resolvable == Resolvable(b, keys) IN
    IF resolvable = {} THEN keys
    ELSE {k \in resolvable : \A j \in resolvable :
              TimeKeyLeq(BackendGet(b, k)[field], k, BackendGet(b, j)[field], j)}

\* eviction.select_lfu_victim
SelectLfuVictim(b, keys) == SelectByMin(b, keys, "access_count")

\* eviction.select_fifo_victim
SelectFifoVictim(b, keys) == SelectByMin(b, keys, "created_at")

\* eviction.select_size_victim: max(entries)[1] over (size, key) tuples
SelectSizeVictim(b, keys) ==
    LET resolvable == Resolvable(b, keys) IN
    IF resolvable = {} THEN keys
    ELSE {k \in resolvable : \A j \in resolvable :
              TimeKeyLeq(BackendGet(b, j).size, j, BackendGet(b, k).size, k)}

\* what can go wrong in the tier during one _evict_one: nothing, its get
\* yields no entry for the victim, or its delete reports failure
NoFault == "none"
TierFaults == IF cfg.faults THEN {NoFault, "get", "delete"} ELSE {NoFault}

\* (mutant) an eviction that forgets to give back the victim's bytes
EvictOne_KeepsSize(b, st, fault) ==
    LET keys == BackendKeys(b) IN
    IF keys = {} THEN [tier |-> b, stats |-> st, ok |-> FALSE, victim |-> << >>]
    ELSE LET victim_key == SelectLruVictim(BackendOrder(b), b, keys) IN
         [tier |-> BackendDelete(b, victim_key),
          stats |-> [st EXCEPT !.evictions = @ + 1, !.entry_count = @ - 1],
          ok |-> TRUE, victim |-> victim_key]

\* (mutant) the stats are updated before the delete is known to have worked
EvictOne_CountsFailedDelete(b, st, fault) ==
    LET keys == BackendKeys(b) IN
    IF keys = {} THEN [tier |-> b, stats |-> st, ok |-> FALSE, victim |-> << >>]
    ELSE LET victim_key == SelectLruVictim(BackendOrder(b), b, keys)
             deleted == BackendDeleteOk(b, victim_key) /\ fault # "delete"
         IN
         IF BackendHas(b, victim_key) /\ fault # "get"
         THEN [tier |-> IF deleted THEN BackendDelete(b, victim_key) ELSE b,
               stats |-> [st EXCEPT !.evictions = @ + 1,
                                    !.entry_count = @ - 1,
                                    !.size_bytes = @ - BackendGet(b, victim_key).size],
               ok |-> deleted, victim |-> victim_key]
         ELSE [tier |-> b, stats |-> st, ok |-> FALSE, victim |-> << >>]

\* TranscriptionCache._evict_one on tier 0 `b` and stats `st`, with what goes
\* wrong in the tier meanwhile: the tier and stats afterwards and the value
\* returned
EvictOne(b, st, fault) ==
    LET keys == BackendKeys(b) IN
    IF keys = {} THEN [tier |-> b, stats |-> st, ok |-> FALSE, victim |-> << >>]
    ELSE LET victim_key == SelectLruVictim(BackendOrder(b), b, keys) IN
         IF /\ BackendHas(b, victim_key) /\ fault # "get"
            /\ BackendDeleteOk(b, victim_key) /\ fault # "delete"
         THEN [tier |-> BackendDelete(b, victim_key),
               stats |-> [st EXCEPT !.evictions = @ + 1,
                                    !.entry_count = @ - 1,
                                    !.size_bytes = @ - BackendGet(b, victim_key).size],
               ok |-> TRUE, victim |-> victim_key]
         ELSE [tier |-> b, stats |-> st, ok |-> FALSE, victim |-> << >>]

(* ------------------------------ get ------------------------------------ *)
\* (mutant) only the tier right above the hit receives the entry
PromoteEntry_OneUp(ts, key, entry, from_level) ==
    IF from_level = 1 THEN ts
    ELSE [ts EXCEPT ![from_level - 1] = BackendPut(@, key, entry)]

\* TranscriptionCache._promote_entry: put into tiers 0 .. from_level-1
RECURSIVE PromoteEntry(_, _, _, _)
\* (mutant) the promoted copy starts a new life at the time of the hit
PromoteEntry_Fresh(ts, key, entry, from_level) ==
    [i \in DOMAIN ts |->
        IF i < from_level
        THEN BackendPut(ts[i], key, [entry EXCEPT !.created_at = entry.accessed_at])
        ELSE ts[i]]
PromoteEntry(ts, key, entry, from_level) ==
    IF from_level = 0 THEN ts
    ELSE PromoteEntry([ts EXCEPT ![from_level - 1] = BackendPut(@, key, entry)],
                      key, entry, from_level - 1)

\* the `for i, backend in enumerate(self.backends)` loop of get, from tier i on:
\* the tiers afterwards, the tier that gave the hit (-1: none) and the value
RECURSIVE GetWalk(_, _, _, _)
GetWalk_KeepsExpired(i, ts, key, t) ==
    IF i >= cfg.ntiers
    THEN [tiers |-> ts, hit |-> 0 - 1, value |-> << >>]
    ELSE IF ~BackendHas(ts[i], key) THEN GetWalk(i + 1, ts, key, t)
    ELSE LET entry == BackendGet(ts[i], key) IN
         IF IsExpired(entry, t)
         THEN GetWalk(i + 1, ts, key, t)
         ELSE LET touched == Touch(entry, t)
                  ts1 == [ts EXCEPT ![i] = BackendPut(@, key, touched)]
                  ts2 == IF i > 0 THEN PromoteEntry(ts1, key, touched, i) ELSE ts1
              IN [tiers |-> ts2, hit |-> i,
                  value |-> IF EnableCompression
                            THEN Decompress(touched.value)
                            ELSE <<touched.value>>]

GetWalk(i, ts, key, t) ==
    IF i >= cfg.ntiers
    THEN [tiers |-> ts, hit |-> 0 - 1, value |-> << >>]
    ELSE IF ~BackendHas(ts[i], key) THEN GetWalk(i + 1, ts, key, t)
    ELSE LET entry == BackendGet(ts[i], key) IN
         IF IsExpired(entry, t)
         THEN GetWalk(i + 1, [ts EXCEPT ![i] = BackendDelete(@, key)], key, t)
         ELSE LET touched == Touch(entry, t)
                  ts1 == [ts EXCEPT ![i] = BackendPut(@, key, touched)]
                  ts2 == IF i > 0 THEN PromoteEntry(ts1, key, touched, i) ELSE ts1
              IN [tiers |-> ts2, hit |-> i,
                  value |-> IF EnableCompression
                            THEN Decompress(touched.value)
                            ELSE <<touched.value>>]

\* (mutant) the critical sections are entered without the lock
CanAcquire_NoLock(t) == TRUE

\* (mutant) a lookup that finds nothing is not counted
CountLookup_NoMiss(st, hit) ==
    IF hit >= 0 THEN [st EXCEPT !.hits = @ + 1] ELSE st

\* get: self.stats.hits += 1 on a usable entry, self.stats.misses += 1 after
\* the loop
CountLookup(st, hit) ==
    IF hit >= 0 THEN [st EXCEPT !.hits = @ + 1] ELSE [st EXCEPT !.misses = @ + 1]

\* RLock.acquire by thread t succeeds when the lock is free or already t's
CanAcquire(t) == lock = NoThread \/ lock = t

\* TranscriptionCache.get
Get(t, path, provider, settings) ==
    /\ pc[t] = "idle"
    /\ now < cfg.horizon
    /\ CanAcquire(t)
    /\ LET kf == KeyFromFile(memo, path, provider, settings)
           w == GetWalk(0, tiers, kf.key, now)
       IN /\ memo' = kf.memo
          /\ tiers' = w.tiers
          /\ stats' = CountLookup(stats, w.hit)
          /\ last' = [op |-> "get", hit |-> w.hit, value |-> w.value]
          \* an expired tier-0 entry is deleted before a lower tier's copy
          \* is promoted, so the key is inserted anew
          /\ order' = OrderAfter(tiers[0], w.tiers[0],
                                 IF BackendHas(tiers[0], kf.key)
                                    /\ IsExpired(BackendGet(tiers[0], kf.key), now)
                                 THEN {kf.key} ELSE {})
    /\ now' = now + 1
    /\ UNCHANGED <<tuiVars, cfg, lock, pc, req, files, snap>>

(* ------------------------------ put ------------------------------------ *)
\* threads are interchangeable: of two idle threads "t1" is the one that calls
StartsInOrder(t) == t = "t1" \/ pc["t1"] # "idle"

NoReq == << >>
NoSnap == << >>
ZeroStats == [hits |-> 0, misses |-> 0, evictions |-> 0, size_bytes |-> 0,
              entry_count |-> 0]

\* put, up to `with self._lock:` in _store_entry_in_backend: key, encoded
\* value, size check and the new entry, which touch only locals and the memo;
\* the lock is taken in the same step when it is free, else the thread waits
PutBegin(t, path, provider, settings, value, ttl) ==
    /\ pc[t] = "idle"
    /\ StartsInOrder(t)
    /\ now < cfg.horizon
    /\ LET kf == KeyFromFile(memo, path, provider, settings)
           cached_value == PrepareCacheValue(value)
           size == CalculateSize(cached_value)
       IN /\ memo' = kf.memo
          /\ IF ~ValidateEntrySize(size)
             THEN /\ last' = [op |-> "put", ok |-> FALSE]
                  /\ UNCHANGED <<pc, req, lock, snap>>
             ELSE /\ req' = [req EXCEPT ![t] =
                                [key_str |-> kf.key, size |-> size,
                                 entry |-> CreateCacheEntry(cached_value, size, ttl, now)]]
                  /\ IF CanAcquire(t)
                     THEN /\ lock' = t
                          /\ pc' = [pc EXCEPT ![t] = "evict_count"]
                          /\ snap' = [tier0 |-> tiers[0], stats |-> stats]
                     ELSE /\ pc' = [pc EXCEPT ![t] = "put_wait"]
                          /\ UNCHANGED <<lock, snap>>
                  /\ UNCHANGED last
    /\ now' = now + 1
    /\ UNCHANGED <<tuiVars, cfg, tiers, stats, files>>
    /\ order' = OrderAfter(tiers[0], tiers'[0], {})

\* _store_entry_in_backend: `with self._lock:`, for a thread that had to wait
PutAcquire(t) ==
    /\ pc[t] = "put_wait"
    /\ CanAcquire(t)
    /\ lock' = t
    /\ pc' = [pc EXCEPT ![t] = "evict_count"]
    /\ snap' = [tier0 |-> tiers[0], stats |-> stats]
    /\ UNCHANGED <<tuiVars, cfg, tiers, stats, req, now, files, memo, last>>
    /\ order' = OrderAfter(tiers[0], tiers'[0], {})

\* _evict_if_needed, one test of `while self.stats.entry_count >= self.max_entries`
\* and, when it holds, one call of _evict_one whose result is not looked at
EvictCountStep(t) ==
    /\ pc[t] = "evict_count"
    /\ IF stats.entry_count >= cfg.max_entries
       THEN \E fault \in TierFaults :
            LET r == EvictOne(tiers[0], stats, fault) IN
            /\ tiers' = [tiers EXCEPT ![0] = r.tier]
            /\ stats' = r.stats
            /\ UNCHANGED pc
       ELSE /\ pc' = [pc EXCEPT ![t] = "evict_size"]
            /\ UNCHANGED <<tiers, stats>>
    /\ UNCHANGED <<tuiVars, cfg, lock, req, now, files, memo, last, snap>>
    /\ order' = OrderAfter(tiers[0], tiers'[0], {})

\* _evict_if_needed, one test of
\* `while self.stats.size_bytes + required_size > self.max_size_bytes`
\* and, when it holds, one call of _evict_one; `break` when that returns False
EvictSizeStep(t) ==
    /\ pc[t] = "evict_size"
    /\ IF stats.size_bytes + req[t].size > cfg.max_size_bytes
       THEN \E fault \in TierFaults :
            LET r == EvictOne(tiers[0], stats, fault) IN
            IF r.ok
            THEN /\ tiers' = [tiers EXCEPT ![0] = r.tier]
                 /\ stats' = r.stats
                 /\ UNCHANGED pc
            ELSE /\ pc' = [pc EXCEPT ![t] = "store"]
                 /\ UNCHANGED <<tiers, stats>>
       ELSE /\ pc' = [pc EXCEPT ![t] = "store"]
            /\ UNCHANGED <<tiers, stats>>
    /\ UNCHANGED <<tuiVars, cfg, lock, req, now, files, memo, last, snap>>
    /\ order' = OrderAfter(tiers[0], tiers'[0], {})

\* self.backends[0].put(key_str, entry): what the tier can report; a write
\* that reports failure has stored nothing
BackendPutResults == IF cfg.faults THEN {TRUE, FALSE} ELSE {TRUE}

\* (mutant) the new entry is written through to every tier
Store_AllTiers(t) ==
    /\ pc[t] = "store"
    /\ \E success \in BackendPutResults :
       LET r == req[t]
       IN /\ tiers' = IF success
                      THEN [i \in TierIdx |-> IF i \in ActiveTiers
                                             THEN BackendPut(tiers[i], r.key_str, r.entry)
                                             ELSE tiers[i]]
                      ELSE tiers
          /\ stats' = IF success
                      THEN [stats EXCEPT !.entry_count = @ + 1,
                                         !.size_bytes = @ + r.size]
                      ELSE stats
          /\ last' = [op |-> "put", ok |-> success]
    /\ lock' = NoThread
    /\ pc' = [pc EXCEPT ![t] = "idle"]
    /\ req' = [req EXCEPT ![t] = NoReq]
    /\ snap' = NoSnap
    /\ UNCHANGED <<tuiVars, cfg, now, files, memo>>
    /\ order' = OrderAfter(tiers[0], tiers'[0], {})

\* _store_entry_in_backend after _evict_if_needed: the write to tier 0, the
\* stats update and the release of the lock
Store(t) ==
    /\ pc[t] = "store"
    /\ \E success \in BackendPutResults :
       LET r == req[t]
       IN /\ tiers' = IF success
                      THEN [tiers EXCEPT ![0] = BackendPut(@, r.key_str, r.entry)]
                      ELSE tiers
          /\ stats' = IF success
                      THEN [stats EXCEPT !.entry_count = @ + 1,
                                         !.size_bytes = @ + r.size]
                      ELSE stats
          /\ last' = [op |-> "put", ok |-> success]
    /\ lock' = NoThread
    /\ pc' = [pc EXCEPT ![t] = "idle"]
    /\ req' = [req EXCEPT ![t] = NoReq]
    /\ snap' = NoSnap
    /\ UNCHANGED <<tuiVars, cfg, now, files, memo>>
    /\ order' = OrderAfter(tiers[0], tiers'[0], {})

(* ------------------------------ invalidate ----------------------------- *)
\* provider=None; the empty string is as falsy
NoProvider == << >>

RECURSIVE SetToSeq(_)
SetToSeq(S) ==
    IF S = {} THEN << >>
    ELSE LET x == CHOOSE y \in S : TRUE IN <<x>> \o SetToSeq(S \ {x})

\* (mutant) a key with more than three segments is parsed as well, its
\* first two segments taken as content hash and provider
KeyMatches_LongKeys(key_str, file_path, provider, test_hash) ==
    LET parts == Split(key_str) IN
    /\ Len(parts) >= 3
    /\ ~(provider # NoProvider /\ <<parts[2]>> # provider)
    /\ ~(file_path # None /\ parts[1] # test_hash)

\* phase 1, the test of one key
KeyMatches(key_str, file_path, provider, test_hash) ==
    LET parts == Split(key_str) IN
    /\ Len(parts) = 3
    /\ ~(provider # NoProvider /\ <<parts[2]>> # provider)
    /\ ~(file_path # None /\ parts[1] # test_hash)

\* phase 1: keys_to_delete, a list with one item per tier that lists the key
RECURSIVE KeysToDelete(_, _, _, _, _)
KeysToDelete(i, ts, file_path, provider, test_hash) ==
    IF i >= cfg.ntiers THEN << >>
    ELSE SetToSeq({k \in BackendKeys(ts[i]) :
                      KeyMatches(k, file_path, provider, test_hash)})
         \o KeysToDelete(i + 1, ts, file_path, provider, test_hash)

\* (mutant) every delete call is counted, also one that found nothing
RECURSIVE DeleteFromTiers_CountsCalls(_, _, _, _)
DeleteFromTiers_CountsCalls(i, ts, key_str, count) ==
    IF i >= cfg.ntiers THEN [tiers |-> ts, count |-> count]
    ELSE DeleteFromTiers_CountsCalls(
             i + 1,
             IF BackendDeleteOk(ts[i], key_str)
             THEN [ts EXCEPT ![i] = BackendDelete(@, key_str)] ELSE ts,
             key_str, count + 1)

\* phase 2, inner loop: delete one key from tiers i.. and count the deletions
RECURSIVE DeleteFromTiers(_, _, _, _)
DeleteFromTiers(i, ts, key_str, count) ==
    IF i >= cfg.ntiers THEN [tiers |-> ts, count |-> count]
    ELSE IF BackendDeleteOk(ts[i], key_str)
         THEN DeleteFromTiers(i + 1, [ts EXCEPT ![i] = BackendDelete(@, key_str)],
                              key_str, count + 1)
         ELSE DeleteFromTiers(i + 1, ts, key_str, count)

\* phase 2, outer loop over keys_to_delete
RECURSIVE DeleteKeys(_, _, _)
DeleteKeys(keys_to_delete, ts, count) ==
    IF keys_to_delete = << >> THEN [tiers |-> ts, count |-> count]
    ELSE LET d == DeleteFromTiers(0, ts, Head(keys_to_delete), count) IN
         DeleteKeys(Tail(keys_to_delete), d.tiers, d.count)

\* a key reaches the path filter, so that _hash_file is called
ReachesPathFilter(ts, provider) ==
    \E i \in ActiveTiers : \E k \in BackendKeys(ts[i]) :
        KeyMatches(k, None, provider, None)

\* TranscriptionCache.invalidate
Invalidate(t, file_path, provider) ==
    /\ pc[t] = "idle"
    /\ now < cfg.horizon
    /\ CanAcquire(t)
    /\ LET hashed == file_path # None /\ ReachesPathFilter(tiers, provider)
           hf == IF hashed THEN HashFile(memo, file_path)
                 ELSE [hash |-> None, memo |-> memo]
           keys_to_delete == KeysToDelete(0, tiers, file_path, provider, hf.hash)
           d == DeleteKeys(keys_to_delete, tiers, 0)
       IN /\ tiers' = d.tiers
          /\ stats' = [stats EXCEPT !.entry_count = @ - d.count]
          /\ memo' = IF file_path # None THEN ClearHashCache(hf.memo, file_path)
                     ELSE IF d.count > 0 THEN ClearHashCache(hf.memo, None)
                     ELSE hf.memo
          /\ last' = [op |-> "invalidate", count |-> d.count]
    /\ now' = now + 1
    /\ UNCHANGED <<tuiVars, cfg, lock, pc, req, files, snap>>
    /\ order' = OrderAfter(tiers[0], tiers'[0], {})

(* ------------------------------ clear ---------------------------------- *)
\* the attributes TranscriptionCache.__init__ assigns; the class body and its
\* other methods assign none
InitAttrs == {"backends", "max_size_bytes", "max_entries", "default_ttl",
              "enable_compression", "stats", "_lock"}

\* reading self.<attr>: the exception raised, or None
ReadAttr(attr) == IF attr \in InitAttrs THEN None ELSE "AttributeError"

\* TranscriptionCache.clear: every tier cleared and the stats replaced, then
\* self._warm_keys.clear(), which reads an attribute __init__ never sets
Clear(t) ==
    /\ pc[t] = "idle"
    /\ now < cfg.horizon
    /\ CanAcquire(t)
    /\ tiers' = [i \in TierIdx |-> IF i \in ActiveTiers THEN EmptyMap ELSE tiers[i]]
    /\ stats' = ZeroStats
    /\ last' = [op |-> "clear",
                count |-> SetSum(ActiveTiers,
                                 [i \in ActiveTiers |-> Cardinality(BackendKeys(tiers[i]))]),
                raised |-> ReadAttr("_warm_keys")]
    /\ now' = now + 1
    /\ UNCHANGED <<tuiVars, cfg, lock, pc, req, files, memo, snap>>
    /\ order' = OrderAfter(tiers[0], tiers'[0], {})

(* ------------------------------ warm ----------------------------------- *)
\* the lists of (file_path, provider, settings, value) a caller passes to warm
WarmLists ==
    {<< >>} \cup {<<[path |-> p, provider |-> o]>> : p \in Paths, o \in Providers}

\* TranscriptionCache.warm: `if not self.enable_warming` reads an attribute
\* __init__ never sets, on every instance; the statements after it (the
\* early return and the loop of puts) are reached by no call
Warm(t, entries) ==
    /\ pc[t] = "idle"
    /\ now < cfg.horizon
    /\ ReadAttr("enable_warming") # None
    /\ last' = [op |-> "warm", count |-> 0, given |-> Len(entries),
                raised |-> ReadAttr("enable_warming")]
    /\ now' = now + 1
    /\ UNCHANGED <<tuiVars, cfg, tiers, stats, lock, pc, req, files, memo, snap>>
    /\ order' = OrderAfter(tiers[0], tiers'[0], {})

(* ------------------------------ environment ---------------------------- *)
\* time passes
Sleep ==
    /\ now < cfg.horizon
    /\ now' = now + 1
    /\ UNCHANGED <<tuiVars, cfg, tiers, stats, lock, pc, req, files, memo, last, snap>>
    /\ order' = OrderAfter(tiers[0], tiers'[0], {})

\* a file is rewritten; its (mtime, size) tuple may stay the same
ModifyFile(path, content, meta) ==
    /\ now < cfg.horizon
    /\ path \in ModifiedPaths
    /\ <<content, meta>> # <<files[path].content, files[path].meta>>
    /\ files' = [files EXCEPT ![path] = [content |-> content, meta |-> meta]]
    /\ now' = now + 1
    /\ UNCHANGED <<tuiVars, cfg, tiers, stats, lock, pc, req, memo, last, snap>>
    /\ order' = OrderAfter(tiers[0], tiers'[0], {})

\* a fallback tier (index > 0) receives an entry from outside the cache
SeedTier(i, file_hash, provider, settings) ==
    /\ now < cfg.horizon
    /\ i \in ActiveTiers /\ i > 0
    /\ LET value == [data |-> "v1", len |-> 1]
           key_str == KeyStr(file_hash, provider, SettingsHash(settings))
       IN tiers' = [tiers EXCEPT ![i] =
                       BackendPut(@, key_str,
                                  NewEntry(PrepareCacheValue(value), 1, cfg.default_ttl, now))]
    /\ now' = now + 1
    /\ UNCHANGED <<tuiVars, cfg, stats, lock, pc, req, files, memo, last, snap>>
    /\ order' = OrderAfter(tiers[0], tiers'[0], {})

\* the same by a process whose values are larger
SeedTierLarge(i, file_hash, provider, settings) ==
    /\ now < cfg.horizon
    /\ i \in ActiveTiers /\ i > 0
    /\ LET value == [data |-> "v1", len |-> MaxSizeBytes - 1]
           key_str == KeyStr(file_hash, provider, SettingsHash(settings))
       IN tiers' = [tiers EXCEPT ![i] =
                       BackendPut(@, key_str,
                                  NewEntry(PrepareCacheValue(value), MaxSizeBytes - 1, cfg.default_ttl, now))]
    /\ now' = now + 1
    /\ UNCHANGED <<tuiVars, cfg, stats, lock, pc, req, files, memo, last, snap>>
    /\ order' = OrderAfter(tiers[0], tiers'[0], {})

\* the payload of a stored entry is damaged in its tier (a truncated or
\* rewritten file of a disk tier): the codec can no longer decode it
CorruptPayload(i, key_str) ==
    /\ now < cfg.horizon
    /\ i \in ActiveTiers
    /\ key_str \in DOMAIN tiers[i]
    /\ tiers[i][key_str].value.codec = "z"
    /\ tiers' = [tiers EXCEPT ![i][key_str].value.codec = "damaged"]
    /\ now' = now + 1
    /\ UNCHANGED <<tuiVars, cfg, stats, lock, pc, req, files, memo, last, snap>>
    /\ order' = OrderAfter(tiers[0], tiers'[0], {})

\* a caller builds a key itself: str(CacheKey.from_file(path, provider, settings))
FromFile(path, provider, settings) ==
    /\ now < cfg.horizon
    /\ LET kf == KeyFromFile(memo, path, provider, settings)
       IN /\ memo' = kf.memo
          /\ last' = [op |-> "key", key_str |-> kf.key]
    /\ now' = now + 1
    /\ UNCHANGED <<tuiVars, cfg, tiers, stats, lock, pc, req, files, snap>>
    /\ order' = OrderAfter(tiers[0], tiers'[0], {})

\* a caller clears the memo itself: CacheKey.clear_hash_cache(path), or
\* clear_hash_cache() for path = None
ClearHashCacheCall(path) ==
    /\ now < cfg.horizon
    /\ memo # ClearHashCache(memo, path)
    /\ memo' = ClearHashCache(memo, path)
    /\ now' = now + 1
    /\ UNCHANGED <<tuiVars, cfg, tiers, stats, lock, pc, req, files, last, snap>>
    /\ order' = OrderAfter(tiers[0], tiers'[0], {})

\* a tier or a client serializes an entry: entry.to_dict()
Serialize(entry) ==
    /\ last.op # "to_dict"
    /\ last' = [op |-> "to_dict", entry |-> entry, data |-> ToDict(entry)]
    /\ UNCHANGED <<tuiVars, cfg, tiers, stats, lock, pc, req, now, files, memo, snap>>
    /\ order' = OrderAfter(tiers[0], tiers'[0], {})

\* and reads it back: CacheEntry.from_dict(data)
Deserialize ==
    /\ last.op = "to_dict"
    /\ last' = [op |-> "from_dict", entry |-> last.entry, back |-> FromDict(last.data)]
    /\ UNCHANGED <<tuiVars, cfg, tiers, stats, lock, pc, req, now, files, memo, snap>>
    /\ order' = OrderAfter(tiers[0], tiers'[0], {})

\* a fallback tier (index > 0) that other programs write to receives an
\* entry under a key of their making
SeedKey(i, key_str) ==
    /\ now < cfg.horizon
    /\ i \in ActiveTiers /\ i > 0
    /\ ~(key_str \in DOMAIN tiers[i])
    /\ LET value == [data |-> "v1", len |-> 1]
       IN tiers' = [tiers EXCEPT ![i] =
                       BackendPut(@, key_str,
                                  NewEntry(PrepareCacheValue(value), 1, cfg.default_ttl, now))]
    /\ now' = now + 1
    /\ UNCHANGED <<tuiVars, cfg, stats, lock, pc, req, files, memo, last, snap>>
    /\ order' = OrderAfter(tiers[0], tiers'[0], {})

(* ============================ ui/tui/events.py ========================= *)
MaxQueueSize == 2      \* largest max_queue_size configured
MaxEvents == 4         \* events the producers offer to the queue

\* _STOP_SENTINEL: an object no producer can make
StopSentinel == [id |-> 0, type |-> "_STOP_SENTINEL", stage |-> None]
Stages == {"s1", "s2"}
\* the events of the pipeline the consumer tells apart: by type, and by
\* stage (None when the event carries no stage)
EventKinds ==
    {[type |-> "log", stage |-> None]} \cup
    {[type |-> "stage_progress", stage |-> s] : s \in Stages \cup {None}}
NewEvent(n, kind) == [id |-> n, type |-> kind.type, stage |-> kind.stage]

\* EventConsumerConfig; queue_kind tells whether the consumer made its queue
\* with create_queue or was handed a bounded asyncio.Queue
ConsumerConfigs ==
    [max_queue_size : 1 .. MaxQueueSize, coalesce_progress : BOOLEAN,
     drop_policy : {"oldest", "newest"}, queue_kind : {"created", "given"}]
DefaultConsumerConfig ==
    [max_queue_size |-> MaxQueueSize, coalesce_progress |-> TRUE,
     drop_policy |-> "oldest", queue_kind |-> "created"]

\* asyncio.Queue.put_nowait: raises QueueFull on a full queue
QueuePutNowait(q, item, maxsize) ==
    IF maxsize > 0 /\ Len(q) >= maxsize
    THEN [queue |-> q, raised |-> TRUE]
    ELSE [queue |-> Append(q, item), raised |-> FALSE]

\* _DropAwareQueue._evict_oldest
EvictOldest(q) == IF q = << >> THEN q ELSE Tail(q)

DropAwarePutNowait_PoliciesSwapped(q, item, maxsize, drop_policy) ==
    IF maxsize > 0 /\ Len(q) >= maxsize
    THEN IF item = StopSentinel
         THEN QueuePutNowait(EvictOldest(q), item, maxsize)
         ELSE IF drop_policy = "newest"
              THEN QueuePutNowait(EvictOldest(q), item, maxsize)
              ELSE [queue |-> q, raised |-> FALSE]
    ELSE QueuePutNowait(q, item, maxsize)

\* _DropAwareQueue.put_nowait
DropAwarePutNowait(q, item, maxsize, drop_policy) ==
    IF maxsize > 0 /\ Len(q) >= maxsize
    THEN IF item = StopSentinel
         THEN QueuePutNowait(EvictOldest(q), item, maxsize)
         ELSE IF drop_policy = "oldest"
              THEN QueuePutNowait(EvictOldest(q), item, maxsize)
              ELSE [queue |-> q, raised |-> FALSE]
    ELSE QueuePutNowait(q, item, maxsize)

\* _DropAwareQueue.put: after the eviction super().put finds room and does
\* not wait
DropAwarePut(q, item, maxsize, drop_policy) ==
    IF maxsize > 0 /\ Len(q) >= maxsize
    THEN IF item = StopSentinel \/ drop_policy = "oldest"
         THEN QueuePutNowait(EvictOldest(q), item, maxsize)
         ELSE [queue |-> q, raised |-> FALSE]
    ELSE QueuePutNowait(q, item, maxsize)

\* _DropAwareQueue.__init__: maxsize = max(1, maxsize)
QueueMaxsize == IF econf.max_queue_size < 1 THEN 1 ELSE econf.max_queue_size

\* self.queue.put_nowait(item) on the queue the consumer reads
PutNowait(q, item) ==
    IF econf.queue_kind = "created"
    THEN DropAwarePutNowait(q, item, QueueMaxsize, econf.drop_policy)
    ELSE QueuePutNowait(q, item, econf.max_queue_size)

\* a dict in insertion order, as a sequence of <<key, value>>
DictHas(d, k) == \E i \in 1 .. Len(d) : d[i][1] = k
DictGet(d, k, default) ==
    IF DictHas(d, k)
    THEN d[CHOOSE i \in 1 .. Len(d) : d[i][1] = k][2]
    ELSE default
DictSet(d, k, v) ==
    IF DictHas(d, k)
    THEN [i \in 1 .. Len(d) |-> IF d[i][1] = k THEN <<k, v>> ELSE d[i]]
    ELSE Append(d, <<k, v>>)
DictValues(d) == [i \in 1 .. Len(d) |-> d[i][2]]

NewConsumer ==
    [running |-> FALSE, batch |-> << >>, last_progress |-> << >>,
     stopped |-> None, pc |-> "new"]

AddToBatch_KeepsFirst(c, event) ==
    IF econf.coalesce_progress /\ event.type = "stage_progress"
    THEN IF event.stage # None /\ ~DictHas(c.last_progress, event.stage)
         THEN [c EXCEPT !.last_progress = DictSet(@, event.stage, event)]
         ELSE c
    ELSE [c EXCEPT !.batch = Append(@, event)]

AddToBatch_CoalescesAll(c, event) ==
    IF econf.coalesce_progress
    THEN [c EXCEPT !.last_progress = DictSet(@, event.type, event)]
    ELSE [c EXCEPT !.batch = Append(@, event)]

\* EventConsumer._add_to_batch
AddToBatch(c, event) ==
    IF econf.coalesce_progress /\ event.type = "stage_progress"
    THEN IF event.stage # None
         THEN [c EXCEPT !.last_progress = DictSet(@, event.stage, event)]
         ELSE c
    ELSE [c EXCEPT !.batch = Append(@, event)]

\* EventConsumer._coalesce_batch
CoalesceBatch(c) == c.batch \o DictValues(c.last_progress)

\* EventConsumer._flush_batch: the consumer and the calls of on_batch after it
FlushBatch(c, bs) ==
    IF c.batch = << >> /\ c.last_progress = << >>
    THEN [consumer |-> c, batches |-> bs, called |-> FALSE]
    ELSE LET coalesced == CoalesceBatch(c)
             cleared == [c EXCEPT !.batch = << >>, !.last_progress = << >>] IN
         IF coalesced = << >>
         THEN [consumer |-> cleared, batches |-> bs, called |-> FALSE]
         ELSE [consumer |-> cleared, batches |-> Append(bs, coalesced),
               called |-> TRUE]

\* the history of dequeued events, one sequence per call of on_batch and one
\* for the events taken since
CloseInterval(called) ==
    IF called THEN Append(dequeued, << >>) ELSE dequeued
NoteDequeued(event) ==
    [dequeued EXCEPT ![Len(dequeued)] = Append(@, event)]

\* a producer: QueueEventSink.emit schedules queue.put_nowait(event) on the loop
Emit(kind) ==
    /\ produced < MaxEvents
    /\ produced' = produced + 1
    /\ queue' = PutNowait(queue, NewEvent(produced + 1, kind)).queue
    /\ UNCHANGED <<cacheVars, econf, consumer, stopper, dequeued, batches,
                   heap, app, logged>>

\* a producer coroutine: await queue.put(event) on a queue made by create_queue
EmitAwait(kind) ==
    /\ produced < MaxEvents
    /\ econf.queue_kind = "created"
    /\ produced' = produced + 1
    /\ queue' = DropAwarePut(queue, NewEvent(produced + 1, kind), QueueMaxsize,
                             econf.drop_policy).queue
    /\ UNCHANGED <<cacheVars, econf, consumer, stopper, dequeued, batches,
                   heap, app, logged>>

\* EventConsumer.run up to its first await
RunStart ==
    /\ consumer.pc = "new"
    /\ ~consumer.running
    /\ consumer' = [consumer EXCEPT !.running = TRUE, !.stopped = "clear",
                                    !.pc = "collect"]
    /\ UNCHANGED <<cacheVars, econf, queue, stopper, produced, dequeued,
                   batches, heap, app, logged>>

\* EventConsumer.run: queue.get() returned an item before the deadline.  An
\* event joins the batch; the sentinel ends both loops, the batch is flushed
\* and the finally block runs.
Dequeue ==
    /\ consumer.pc = "collect"
    /\ queue # << >>
    /\ queue' = Tail(queue)
    /\ LET event == Head(queue) IN
       IF event = StopSentinel
       THEN LET f == FlushBatch([consumer EXCEPT !.running = FALSE], batches) IN
            /\ consumer' = [f.consumer EXCEPT
                               !.batch = << >>, !.last_progress = << >>,
                               !.stopped = IF @ = None THEN None ELSE "set",
                               !.running = FALSE, !.pc = "exited"]
            /\ batches' = f.batches
            /\ dequeued' = CloseInterval(f.called)
       ELSE /\ consumer' = AddToBatch(consumer, event)
            /\ dequeued' = NoteDequeued(event)
            /\ UNCHANGED batches
    /\ UNCHANGED <<cacheVars, econf, stopper, produced, heap, app, logged>>

\* EventConsumer.run: the deadline passed (wait_for timed out, or the time was
\* up after an event): the batch is flushed and the next interval begins
Timeout ==
    /\ consumer.pc = "collect"
    /\ LET f == FlushBatch(consumer, batches) IN
       /\ consumer' = f.consumer
       /\ batches' = f.batches
       /\ dequeued' = CloseInterval(f.called)
    /\ UNCHANGED <<cacheVars, econf, queue, stopper, produced, heap, app, logged>>

\* EventConsumer.stop up to its await
Stop ==
    /\ stopper = "idle"
    /\ IF ~consumer.running
       THEN /\ stopper' = "not_running"
            /\ UNCHANGED <<queue, consumer>>
       ELSE LET first == PutNowait(queue, StopSentinel) IN
            /\ consumer' = [consumer EXCEPT
                               !.stopped = IF @ = None THEN "clear" ELSE @]
            /\ queue' = IF first.raised
                        THEN PutNowait(EvictOldest(queue), StopSentinel).queue
                        ELSE first.queue
            /\ stopper' = "waiting"
    /\ UNCHANGED <<cacheVars, econf, produced, dequeued, batches, heap, app, logged>>

\* EventConsumer.stop: await self._stopped.wait() returns
StopReturn ==
    /\ stopper = "waiting"
    /\ consumer.stopped = "set"
    /\ stopper' = "returned"
    /\ UNCHANGED <<cacheVars, econf, queue, consumer, produced, dequeued,
                   batches, heap, app, logged>>

(* ============================= ui/tui/state.py ========================= *)
LogRingSize == 8       \* max_size of the logs ring (2000 in apply_event), scaled down
MaxOverflow == 3       \* log entries appended beyond LogRingSize
MaxHeap == 14          \* objects allocated while events of every type are applied

\* objects on the heap: an address is an index of the sequence heap
NewDict(items) == [cls |-> "dict", val |-> items]
NewList(items) == [cls |-> "list", val |-> items]

\* AppState(): every container field is a fresh empty object
InitHeap ==
    << NewDict(<< >>), NewDict(<< >>), NewDict(<< >>),
       NewList(<< >>), NewList(<< >>), NewList(<< >>), NewDict(<< >>),
       [cls |-> "AppState",
        val |-> [is_running |-> FALSE, can_cancel |-> FALSE,
                 current_stage |-> None, current_progress |-> 0,
                 current_message |-> "",
                 stage_totals |-> 1, stage_completed |-> 2, stage_durations |-> 3,
                 artifacts |-> 4, errors |-> 5, logs |-> 6, summary |-> 7]] >>
InitApp == 8

IsMarker(x) == "truncated" \in DOMAIN x

\* result[-n:] of a Python list
LastItems(result, n) ==
    IF n = 0 \/ n >= Len(result) THEN result
    ELSE SubSeq(result, Len(result) - n + 1, Len(result))

AppendToRing_SlidingWindow(items, item, max_size) ==
    LET result == Append(items, item) IN
    IF Len(result) > max_size
    THEN << [truncated |-> TRUE, count |-> Len(result) - max_size + 1] >>
            \o LastItems(result, max_size - 1)
    ELSE result

\* _append_to_ring
AppendToRing(items, item, max_size) ==
    LET result == Append(items, item) IN
    IF Len(result) > max_size
    THEN LET keep_head == max_size \div 4
             keep_tail == max_size - keep_head - 1 IN
         SubSeq(result, 1, keep_head)
            \o << [truncated |-> TRUE, count |-> Len(result) - max_size + 1] >>
            \o LastItems(result, keep_tail)
    ELSE result

CopyAppend_InPlace(h, r, item) ==
    LET h1 == [h EXCEPT ![r].val = Append(@, item)] IN Append(h1, h1[r])

\* [*xs, item]: a new list made of the items of the list at r and item
CopyAppend(h, r, item) == Append(h, NewList(Append(h[r].val, item)))

\* {**d, k: v}: a new dict made of the dict at r with k set to v
CopyWith(h, r, k, v) == Append(h, NewDict(DictSet(h[r].val, k, v)))

\* dataclasses.replace(state, **changes): a new AppState that shares every
\* field not named in changes with the AppState at s
Replace(h, s, changes) ==
    Append(h, [cls |-> "AppState", val |-> changes @@ h[s].val])

Returned(h) == [heap |-> h, ref |-> Len(h)]

\* LogEntry(type, timestamp, level, message, logger)
LogEntry(type, event, data, level) ==
    [type |-> type, timestamp |-> event.ts, level |-> level,
     message |-> DictGet(data, "message", IF type = "error" THEN "Unknown error" ELSE ""),
     logger |-> DictGet(data, "logger", "")]

\* the LogEntry apply_event appends for event, if it appends one
LogEntryOf(h, event) ==
    LET data == h[event.data].val IN
    CASE event.type = "log" ->
             << LogEntry("log", event, data, DictGet(data, "level", "INFO")) >>
      [] event.type = "warning" -> << LogEntry("warning", event, data, "WARNING") >>
      [] event.type = "error" -> << LogEntry("error", event, data, "ERROR") >>
      [] OTHER -> << >>

\* apply_event(state, event): the heap after the call and the address returned
ApplyEvent(h, s, event) ==
    LET state == h[s].val
        event_stage == event.stage
        event_data == h[event.data].val
    IN
    CASE event.type = "stage_start" ->
           LET h1 == CopyWith(h, state.stage_totals, event_stage,
                              DictGet(event_data, "total", 100))
               h2 == CopyWith(h1, state.stage_completed, event_stage, 0) IN
           Returned(Replace(h2, s,
               [current_stage |-> event_stage,
                current_message |-> DictGet(event_data, "description", ""),
                stage_totals |-> Len(h1), stage_completed |-> Len(h2),
                is_running |-> TRUE, can_cancel |-> TRUE]))
      [] event.type = "stage_progress" ->
           LET completed == DictGet(event_data, "completed", 0)
               totals == h[state.stage_totals].val
               total == DictGet(event_data, "total",
                                DictGet(totals, event_stage, 100))
               differs == ~DictHas(totals, event_stage)
                             \/ total # DictGet(totals, event_stage, 100)
               h1 == IF differs
                     THEN CopyWith(h, state.stage_totals, event_stage, total)
                     ELSE h
               new_totals == IF differs THEN Len(h1) ELSE state.stage_totals
               h2 == CopyWith(h1, state.stage_completed, event_stage, completed) IN
           Returned(Replace(h2, s,
               [stage_completed |-> Len(h2), stage_totals |-> new_totals,
                current_message |->
                    DictGet(event_data, "message", state.current_message),
                current_progress |->
                    IF total > 0 THEN (completed * 100) \div total ELSE 0]))
      [] event.type = "stage_end" ->
           LET h1 == CopyWith(h, state.stage_durations, event_stage,
                              DictGet(event_data, "duration", 0)) IN
           Returned(Replace(h1, s,
               [stage_durations |-> Len(h1), current_stage |-> None,
                current_progress |-> 0]))
      [] event.type = "artifact" ->
           LET h1 == CopyAppend(h, state.artifacts, event.data) IN
           Returned(Replace(h1, s, [artifacts |-> Len(h1)]))
      [] event.type \in {"log", "warning"} ->
           LET log_entry == LogEntryOf(h, event)[1]
               h1 == Append(h, NewList(AppendToRing(h[state.logs].val, log_entry,
                                                    LogRingSize))) IN
           Returned(Replace(h1, s, [logs |-> Len(h1)]))
      [] event.type = "error" ->
           LET log_entry == LogEntryOf(h, event)[1]
               h1 == CopyAppend(h, state.errors, log_entry.message)
               h2 == Append(h1, NewList(AppendToRing(h[state.logs].val, log_entry,
                                                     LogRingSize))) IN
           Returned(Replace(h2, s, [errors |-> Len(h1), logs |-> Len(h2)]))
      [] event.type = "summary" ->
           Returned(Replace(h, s,
               [summary |-> event.data, is_running |-> FALSE,
                can_cancel |-> FALSE]))
      [] event.type = "cancelled" ->
           Returned(Replace(h, s,
               [is_running |-> FALSE, can_cancel |-> FALSE,
                current_message |->
                    <<"Cancelled: ", DictGet(event_data, "reason", "User interrupt")>>]))
      [] OTHER -> [heap |-> h, ref |-> s]

\* the payloads the pipeline sends with each event type
EventData(type) ==
    CASE type = "stage_start" -> {<<<<"description", "d">>, <<"total", 2>>>>, << >>}
      [] type = "stage_progress" ->
             {<<<<"completed", 1>>, <<"total", 2>>, <<"message", "m">>>>,
              <<<<"completed", 1>>>>, <<<<"total", 0>>>>}
      [] type = "stage_end" -> {<<<<"duration", 1>>>>}
      [] type = "artifact" -> {<<<<"kind", "k">>, <<"path", "p">>>>}
      [] type = "log" -> {<<<<"message", "m">>, <<"level", "DEBUG">>>>}
      [] type = "warning" -> {<<<<"message", "m">>>>}
      [] type = "error" -> {<<<<"message", "m">>>>, << >>}
      [] type = "summary" -> {<<<<"provider", "A">>>>}
      [] type = "cancelled" -> {<<<<"reason", "r">>>>, << >>}
      [] OTHER -> {<<<<"foo", "bar">>>>}
EventTypes ==
    {"stage_start", "stage_progress", "stage_end", "artifact", "log", "warning",
     "error", "summary", "cancelled"}
LogEventTypes == {"log", "warning", "error"}

\* handle_batch, for one event of the batch: the producer made the event (its
\* data dict is a new object) and the reducer's result becomes the app's state
Dispatch(type, stage, data) ==
    LET h0 == Append(heap, NewDict(data))
        event == [type |-> type, stage |-> stage, ts |-> Len(logged),
                  data |-> Len(h0)]
        r == ApplyEvent(h0, app, event) IN
    /\ heap' = r.heap
    /\ app' = r.ref
    /\ logged' = logged \o LogEntryOf(h0, event)
    /\ UNCHANGED <<cacheVars, econf, queue, consumer, stopper, produced,
                   dequeued, batches>>

InitTui(E) ==
    /\ econf \in E
    /\ queue = << >>
    /\ consumer = NewConsumer
    /\ stopper = "idle"
    /\ produced = 0
    /\ dequeued = << << >> >>
    /\ batches = << >>
    /\ heap = InitHeap
    /\ app = InitApp
    /\ logged = << >>

(* ------------------------------ specification -------------------------- *)
Values == {[data |-> d, len |-> n] : d \in Data, n \in Sizes}

\* the state after TranscriptionCache.__init__, for the configurations C
InitCache(C) ==
    /\ cfg \in C
    /\ tiers = [i \in TierIdx |-> EmptyMap]
    /\ stats = ZeroStats
    /\ lock = NoThread
    /\ pc = [t \in Threads |-> "idle"]
    /\ req = [t \in Threads |-> NoReq]
    /\ now = 0
    /\ files = [p \in Paths |-> [content |-> IF p = "a.mp3" THEN "h1" ELSE "h2",
                                 meta |-> "m1"]]
    /\ memo = EmptyMap
    /\ last = [op |-> "none"]
    /\ snap = NoSnap
    /\ order = << >>

\* a cache next to a TUI that has not started
InitWith(C) == InitCache(C) /\ InitTui({DefaultConsumerConfig})

\* the calls of the public API by the threads T
ApiCalls(T) ==
    \/ \E t \in T, path \in Paths, provider \in Providers, settings \in Options :
           Get(t, path, provider, settings)
    \/ \E t \in T, path \in Paths, provider \in Providers, settings \in Options,
          value \in Values, ttl \in TtlArgs :
           PutBegin(t, path, provider, settings, value, ttl)
    \/ \E t \in T : EvictCountStep(t)
    \/ \E t \in T : EvictSizeStep(t)
    \/ \E t \in T : Store(t)
    \/ \E t \in T, file_path \in Paths \cup {None},
          provider \in Providers \cup {NoProvider} :
           Invalidate(t, file_path, provider)
    \/ \E t \in T : Clear(t)

(* One caller: every configuration, fallback tiers seeded from outside. *)
Init ==
    InitWith([ntiers : 1 .. NumTiers, max_entries : 1 .. MaxEntriesBound,
              max_size_bytes : {MaxSizeBytes}, default_ttl : {NoTtl},
              faults : {FALSE}, horizon : {MaxTime},
              ordered : {FALSE}])

Next ==
    \/ ApiCalls({"t1"})
    \/ Sleep
    \/ \E i \in TierIdx, file_hash \in Hashes, provider \in Providers,
          settings \in Options :
           SeedTier(i, file_hash, provider, settings)

Spec == Init /\ [][Next]_vars

(* Two callers on a cache with one tier. *)
InitThreads ==
    InitWith([ntiers : {1}, max_entries : 1 .. MaxEntriesBound,
              max_size_bytes : {MaxSizeBytes}, default_ttl : {NoTtl},
              faults : {FALSE}, horizon : {MaxTimeThreads},
              ordered : {FALSE}])

NextThreads ==
    \/ ApiCalls(Threads)
    \/ \E t \in Threads : PutAcquire(t)

SpecThreads == InitThreads /\ [][NextThreads]_vars

(* One caller on a cache with one tier, while files are rewritten. *)
InitMemo ==
    InitWith([ntiers : {1}, max_entries : {MaxEntriesBound},
              max_size_bytes : {MaxSizeBytes}, default_ttl : {NoTtl},
              faults : {FALSE}, horizon : {MaxTime},
              ordered : {FALSE}])

NextMemo ==
    \/ ApiCalls({"t1"})
    \/ \E path \in Paths, content \in Hashes, meta \in Metas :
           ModifyFile(path, content, meta)

SpecMemo == InitMemo /\ [][NextMemo]_vars

(* One caller on a cache with one tier whose writes can fail and whose      *)
(* payloads can be damaged; every kind of ttl argument and of value size.   *)
FaultSizes == {1, MaxSizeBytes, MaxSizeBytes + 1}
FaultValues == {[data |-> d, len |-> n] : d \in Data, n \in FaultSizes}
FaultTtlArgs == {NoTtl, 0, TtlSeconds}
FaultProviders == {<<"A">>}

InitFaults ==
    InitWith([ntiers : {1}, max_entries : 1 .. MaxEntriesBound,
              max_size_bytes : {MaxSizeBytes}, default_ttl : {NoTtl, TtlSeconds},
              faults : {TRUE}, horizon : {MaxTime},
              ordered : {FALSE}])

NextFaults ==
    \/ \E path \in Paths, provider \in FaultProviders, settings \in Options :
           Get("t1", path, provider, settings)
    \/ \E path \in Paths, provider \in FaultProviders, settings \in Options,
          value \in FaultValues, ttl \in FaultTtlArgs :
           PutBegin("t1", path, provider, settings, value, ttl)
    \/ EvictCountStep("t1")
    \/ EvictSizeStep("t1")
    \/ Store("t1")
    \/ \E entries \in WarmLists : Warm("t1", entries)
    \/ \E i \in TierIdx, file_hash \in Hashes, provider \in FaultProviders,
          settings \in Options :
           CorruptPayload(i, KeyStr(file_hash, provider, SettingsHash(settings)))

SpecFaults == InitFaults /\ [][NextFaults]_vars

(* Key construction alone, for every options map and provider, while files *)
(* are rewritten and the memo is cleared.                                   *)
InitKeys ==
    InitWith([ntiers : {1}, max_entries : {MaxEntriesBound},
              max_size_bytes : {MaxSizeBytes}, default_ttl : {NoTtl},
              faults : {FALSE}, horizon : {MaxTime},
              ordered : {FALSE}])

NextKeys ==
    \/ \E path \in Paths, provider \in Providers, settings \in OptionMaps :
           FromFile(path, provider, settings)
    \/ \E path \in Paths, content \in Hashes, meta \in Metas :
           ModifyFile(path, content, meta)
    \/ \E path \in Paths \cup {None} : ClearHashCacheCall(path)

SpecKeys == InitKeys /\ [][NextKeys]_vars

(* Entries of every value type serialized and read back.                   *)
SerialValues ==
    {[type |-> ty, content |-> d] :
        ty \in {"dict", "str", "bytes", "TranscriptionResult"}, d \in Data}
SerialTimes == 0 .. TtlSeconds
SerialEntries ==
    {[key |-> [file_hash |-> h, provider |-> "A", settings_hash |-> Sha16(OptLangModel)],
      value |-> v, size |-> 1, created_at |-> c, accessed_at |-> a,
      access_count |-> n, ttl |-> ttl, metadata |-> md] :
        h \in Hashes, v \in SerialValues, c \in SerialTimes,
        a \in SerialTimes, n \in 0 .. 1, ttl \in TtlArgs,
        md \in {OptEmpty, OptLang}}

InitSerial ==
    InitWith([ntiers : {1}, max_entries : {MaxEntriesBound},
              max_size_bytes : {MaxSizeBytes}, default_ttl : {NoTtl},
              faults : {FALSE}, horizon : {MaxTime},
              ordered : {FALSE}])

NextSerial ==
    \/ \E entry \in SerialEntries : Serialize(entry)
    \/ Deserialize

SpecSerial == InitSerial /\ [][NextSerial]_vars

(* One caller on two tiers that hold keys of other than three segments: a  *)
(* provider name with a ':' in it, and keys written by other programs.      *)
ColonProviders == {<<"A">>, <<"A", "B">>}
ForeignKeys == {<<"junk">>, <<"h1", "A">>}
SmallValues == {[data |-> d, len |-> 1] : d \in Data}

InitMalformed ==
    InitWith([ntiers : {NumTiers}, max_entries : {MaxEntriesBound},
              max_size_bytes : {MaxSizeBytes}, default_ttl : {NoTtl},
              faults : {FALSE}, horizon : {MaxTime},
              ordered : {FALSE}])

NextMalformed ==
    \/ \E path \in Paths, provider \in ColonProviders, settings \in Options,
          value \in SmallValues :
           PutBegin("t1", path, provider, settings, value, NoTtl)
    \/ EvictCountStep("t1")
    \/ EvictSizeStep("t1")
    \/ Store("t1")
    \/ \E file_path \in Paths \cup {None}, provider \in {NoProvider, <<"A">>} :
           Invalidate("t1", file_path, provider)
    \/ \E i \in TierIdx, key_str \in ForeignKeys : SeedKey(i, key_str)

SpecMalformed == InitMalformed /\ [][NextMalformed]_vars

(* ------------------------ specifications of the TUI -------------------- *)
\* the cache is not used while the TUI's parts are examined
IdleCache ==
    InitCache({[ntiers |-> 1, max_entries |-> MaxEntriesBound,
                max_size_bytes |-> MaxSizeBytes, default_ttl |-> NoTtl,
                faults |-> FALSE, horizon |-> MaxTime,
                ordered |-> FALSE]})

(* One consumer task, one caller of stop() and the producers' callbacks on *)
(* one event loop, for every configuration.                                *)
InitConsumer == IdleCache /\ InitTui(ConsumerConfigs)

NextConsumer ==
    \/ \E kind \in EventKinds : Emit(kind)
    \/ \E kind \in EventKinds : EmitAwait(kind)
    \/ RunStart
    \/ Dequeue
    \/ Timeout
    \/ Stop
    \/ StopReturn

SpecConsumer == InitConsumer /\ [][NextConsumer]_vars

(* The same, with the event loop's scheduling: a task that can run does    *)
(* run, and a timer that is due fires.                                     *)
SpecConsumerFair ==
    /\ SpecConsumer
    /\ WF_vars(RunStart)
    /\ WF_vars(Dequeue)
    /\ WF_vars(Timeout)
    /\ WF_vars(StopReturn)

(* The reducer applied to events of every type, known and unknown.         *)
InitReducer == IdleCache /\ InitTui({DefaultConsumerConfig})

NextReducer ==
    \E type \in EventTypes \cup {"unknown_type"}, stage \in {"s1", None} :
       \E data \in EventData(type) :
          Len(heap) < MaxHeap /\ Dispatch(type, stage, data)

SpecReducer == InitReducer /\ [][NextReducer]_vars

(* Log, warning and error events until the ring has overflowed.            *)
NextRing ==
    \E type \in LogEventTypes :
       Len(logged) < LogRingSize + MaxOverflow
          /\ Dispatch(type, None, <<<<"message", "m">>>>)

SpecRing == InitReducer /\ [][NextRing]_vars

(* ======================================================================= *)
(* Claims                                                                  *)
(* ======================================================================= *)
InPutSection(t) == pc[t] \in {"evict_count", "evict_size", "store"}
PutSectionStep(t) == EvictCountStep(t) \/ EvictSizeStep(t) \/ Store(t)

\* C1: while a thread is between the start of put's evict-then-insert and its
\* write to tier 0 it owns the cache lock, and every change of tier 0 or of
\* the stats made meanwhile is a step of that same put: no get, put,
\* invalidate or clear of another thread runs in between.
C1_PutIsOneCriticalSection ==
    [][\A t \in Threads :
          InPutSection(t) =>
             /\ lock = t
             /\ \/ <<tiers'[0], stats'>> = <<tiers[0], stats>>
                \/ PutSectionStep(t)]_vars

\* C1 witness: a put has freed capacity and not yet written its entry while
\* another thread's put waits for the lock.
C1_Witness ==
    \E t, u \in Threads :
        /\ t # u
        /\ InPutSection(t)
        /\ stats.evictions > snap.stats.evictions
        /\ ~(req[t].key_str \in DOMAIN tiers[0])
        /\ pc[u] = "put_wait"

(* ---- vocabulary of the claims, stated apart from the operators above --- *)
\* age above ttl, for an entry that has a ttl
ExpiredAt(e, t) == e.ttl # NoTtl /\ t - e.created_at > e.ttl

Usable(ts, i, key, t) == key \in DOMAIN ts[i] /\ ~ExpiredAt(ts[i][key], t)

\* the first tier holding a usable entry for key, -1 when there is none
FirstUsable(ts, key, t) ==
    IF \E i \in ActiveTiers : Usable(ts, i, key, t)
    THEN CHOOSE i \in ActiveTiers :
             Usable(ts, i, key, t) /\ \A j \in ActiveTiers : Usable(ts, j, key, t) => i <= j
    ELSE 0 - 1

TotalSize(b) == SetSum(DOMAIN b, [k \in DOMAIN b |-> b[k].size])

\* the stats count and weigh exactly the entries of tier `b`
Consistent(b, st) ==
    st.entry_count = Cardinality(DOMAIN b) /\ st.size_bytes = TotalSize(b)

LeastRecentlyTouched(b) ==
    {k \in DOMAIN b : \A j \in DOMAIN b : b[k].accessed_at <= b[j].accessed_at}

GetStep(t, path, provider, settings) == Get(t, path, provider, settings)
GetKey(path, provider, settings) == KeyFromFile(memo, path, provider, settings).key

\* C3: get returns the value of the first unexpired entry of the tiers and
\* nothing when there is none; an expired entry met on the way is removed
\* from its tier and is not counted as a hit.
C3_GetSkipsExpired ==
    [][\A t \in Threads, path \in Paths, provider \in Providers, settings \in Options :
          GetStep(t, path, provider, settings) =>
             LET key == GetKey(path, provider, settings)
                 h == FirstUsable(tiers, key, now)
             IN /\ last'.hit = h
                /\ h >= 0 => last'.value = Decompress(tiers[h][key].value)
                /\ h < 0 => last'.value = << >> /\ stats'.hits = stats.hits
                /\ \A i \in ActiveTiers :
                      (key \in DOMAIN tiers[i] /\ ExpiredAt(tiers[i][key], now)
                         /\ (h < 0 \/ i < h))
                      => (key \in DOMAIN tiers'[i] => ~ExpiredAt(tiers'[i][key], now))]_vars

\* C3 witness: an entry with a ttl was put and read (a hit), then read again
\* after its ttl: a miss that removed it from tier 0.
C3_Witness ==
    /\ last.op = "get" /\ last.hit < 0
    /\ stats.hits = 1 /\ stats.misses = 1
    /\ stats.entry_count = 1 /\ stats.evictions = 0
    /\ DOMAIN tiers[0] = {}

\* C4: a get adds one to hits and nothing to misses when some tier holds an
\* unexpired entry for the key, whose value it returns; else it adds one to
\* misses and nothing to hits and returns nothing.
C4_HitOrMiss ==
    [][\A t \in Threads, path \in Paths, provider \in Providers, settings \in Options :
          GetStep(t, path, provider, settings) =>
             LET key == GetKey(path, provider, settings) IN
             IF \E i \in ActiveTiers : Usable(tiers, i, key, now)
             THEN /\ stats'.hits = stats.hits + 1
                  /\ stats'.misses = stats.misses
                  /\ last'.value # << >>
             ELSE /\ stats'.misses = stats.misses + 1
                  /\ stats'.hits = stats.hits
                  /\ last'.value = << >>]_vars

\* C4 witness: a get on the empty cache (miss), a put, a get of the same key
\* (hit).
C4_Witness ==
    /\ last.op = "get" /\ last.hit = 0
    /\ stats.hits = 1 /\ stats.misses = 1
    /\ stats.entry_count = 1 /\ now = 3

C6_EvictionLoopsStop ==
    \A t \in Threads :
        (pc[t] = "evict_count" /\ stats.entry_count >= cfg.max_entries)
        => EvictOne(tiers[0], stats, NoFault).ok

\* C7: on a single-tier cache whose stats count and weigh exactly the entries
\* of tier 0, every step of a put of a key that tier 0 does not hold (its
\* evictions and its write) keeps entry_count equal to the number of keys of
\* tier 0 and size_bytes equal to the sum of their sizes.
C7_StatsTrackTier0 ==
    [][\A t \in Threads :
          (/\ cfg.ntiers = 1
           /\ Consistent(tiers[0], stats)
           /\ \/ EvictCountStep(t)
              \/ EvictSizeStep(t)
              \/ Store(t) /\ ~(req[t].key_str \in DOMAIN tiers[0]))
          => Consistent(tiers'[0], stats')]_vars

\* C7 witness: three puts of distinct keys, the third with an eviction; the
\* stats match tier 0.
C7_Witness ==
    /\ cfg.ntiers = 1
    /\ last.op = "put" /\ last.ok
    /\ now = 3 /\ stats.evictions = 1
    /\ stats.entry_count = 2 /\ stats.size_bytes = 3
    /\ Consistent(tiers[0], stats)

\* the operation the key was built with: the segments between the content hash
\* and the options hash
OperationOf(key_str) == SubSeq(key_str, 2, Len(key_str) - 1)

\* C8: invalidate(operation=B) with no path removes from every tier exactly
\* the keys of operation B; every other entry stays in its tier unchanged
\* (so get still returns it) and entry_count, when it counted the entries of
\* tier 0 before the call, still counts the ones that remain in tier 0.
C8_InvalidateByOperation ==
    [][\A t \in Threads, provider \in Providers :
          Invalidate(t, None, provider) =>
             /\ \A i \in ActiveTiers :
                   /\ DOMAIN tiers'[i] \subseteq DOMAIN tiers[i]
                   /\ \A k \in DOMAIN tiers[i] :
                         IF OperationOf(k) = provider
                         THEN ~(k \in DOMAIN tiers'[i])
                         ELSE k \in DOMAIN tiers'[i] /\ tiers'[i][k] = tiers[i][k]
             /\ (stats.entry_count = Cardinality(DOMAIN tiers[0])
                   /\ DOMAIN tiers'[0] # {})
                   => stats'.entry_count >= Cardinality(DOMAIN tiers'[0])]_vars

\* the part of C8 about the tiers alone
C8_FrameOnTiers ==
    [][\A t \in Threads, provider \in Providers :
          Invalidate(t, None, provider) =>
             \A i \in ActiveTiers :
                /\ DOMAIN tiers'[i] \subseteq DOMAIN tiers[i]
                /\ \A k \in DOMAIN tiers[i] :
                      IF OperationOf(k) = provider
                      THEN ~(k \in DOMAIN tiers'[i])
                      ELSE k \in DOMAIN tiers'[i] /\ tiers'[i][k] = tiers[i][k]]_vars

\* C9: invalidate returns the number of (tier, key) pairs it removed, removes
\* nothing else, and lowers entry_count by that number.
C9_InvalidateCount ==
    [][\A t \in Threads, file_path \in Paths \cup {None},
          provider \in Providers \cup {NoProvider} :
          Invalidate(t, file_path, provider) =>
             /\ \A i \in ActiveTiers :
                   /\ DOMAIN tiers'[i] \subseteq DOMAIN tiers[i]
                   /\ \A k \in DOMAIN tiers'[i] : tiers'[i][k] = tiers[i][k]
             /\ last'.count =
                   SetSum(ActiveTiers,
                          [i \in ActiveTiers |->
                              Cardinality(DOMAIN tiers[i] \ DOMAIN tiers'[i])])
             /\ stats'.entry_count = stats.entry_count - last'.count]_vars

\* C9 witness: an entry seeded in tier 1 was read (and so copied to tier 0),
\* then invalidated: two deletions for one key.
C9_Witness ==
    /\ last.op = "invalidate" /\ last.count = 2
    /\ stats.hits = 1 /\ now = 3
    /\ stats.entry_count = 0 - 2

\* C10: invalidate with a path leaves the memo without any entry of that path
\* and with every entry of the other paths, so that the next key of that path
\* is built from the file's content; invalidate without a path empties the
\* memo when it removed an entry and leaves it alone when it removed none.
C10_InvalidateClearsMemo ==
    [][\A t \in Threads, file_path \in Paths \cup {None},
          provider \in Providers \cup {NoProvider} :
          Invalidate(t, file_path, provider) =>
             IF file_path # None
             THEN /\ \A ck \in DOMAIN memo' : ck[1] # file_path
                  /\ \A ck \in DOMAIN memo :
                        ck[1] # file_path => ck \in DOMAIN memo' /\ memo'[ck] = memo[ck]
                  /\ HashFile(memo', file_path).hash = files[file_path].content
             ELSE IF last'.count > 0 THEN DOMAIN memo' = {}
             ELSE memo' = memo]_vars

\* C10 witness: a.mp3 was rewritten under the same (mtime, size) after its
\* hash was memoized; invalidate(a.mp3) removed its entry, the memo keeps
\* only b.mp3.
C10_Witness ==
    /\ last.op = "invalidate" /\ last.count = 1
    /\ files["a.mp3"] = [content |-> "h2", meta |-> "m1"]
    /\ DOMAIN memo = {<<"b.mp3", "m1">>}

\* C11: clear() returns the number of entries the tiers cleared, summed over
\* the tiers, and at its return every tier is empty and every counter of the
\* stats is zero.
C11_ClearReturnsCount ==
    [][\A t \in Threads :
          Clear(t) =>
             /\ last'.raised = None
             /\ last'.count =
                   SetSum(ActiveTiers,
                          [i \in ActiveTiers |-> Cardinality(DOMAIN tiers[i])])
             /\ \A i \in ActiveTiers : DOMAIN tiers'[i] = {}
             /\ stats' = ZeroStats]_vars

\* the effects of clear() that happen before it reads self._warm_keys
C11_ClearEmptiesTiers ==
    [][\A t \in Threads :
          Clear(t) =>
             /\ \A i \in ActiveTiers : DOMAIN tiers'[i] = {}
             /\ stats' = ZeroStats]_vars

\* C12: the constructor has no warming option, so every constructed cache is
\* one that was not configured for warming: warm(entries) returns 0 and
\* changes neither the tiers nor the stats.
C12_WarmDisabledReturnsZero ==
    [][\A t \in Threads, entries \in WarmLists :
          Warm(t, entries) =>
             /\ last'.raised = None
             /\ last'.count = 0
             /\ tiers' = tiers
             /\ stats' = stats]_vars

\* the part of C12 that holds: a call of warm changes neither tiers nor stats
C12_WarmChangesNothing ==
    [][\A t \in Threads, entries \in WarmLists :
          Warm(t, entries) => tiers' = tiers /\ stats' = stats]_vars

\* C13: a put whose write to tier 0 reports failure returns false and leaves
\* entry_count, size_bytes and evictions as they were before the call.
C13_FailedWriteLeavesStats ==
    [][\A t \in Threads :
          (Store(t) /\ ~last'.ok) =>
             /\ stats'.entry_count = snap.stats.entry_count
             /\ stats'.size_bytes = snap.stats.size_bytes
             /\ stats'.evictions = snap.stats.evictions]_vars

\* the part of C13 about the write itself: a failed write returns false and
\* the step of the write changes neither the stats nor tier 0
C13_FailedWriteStep ==
    [][\A t \in Threads :
          (Store(t) /\ ~last'.ok) => stats' = stats /\ tiers' = tiers]_vars

\* C14: a put of a value larger than max_size_bytes returns false at once:
\* nothing is evicted, no tier is written, the stats are unchanged and the
\* lock is not taken; a value of exactly max_size_bytes passes this check
\* and goes on to the locked section.
C14_OversizeRejected ==
    [][\A t \in Threads, path \in Paths, provider \in FaultProviders,
          settings \in Options, value \in FaultValues, ttl \in FaultTtlArgs :
          PutBegin(t, path, provider, settings, value, ttl) =>
             IF CalculateSize(PrepareCacheValue(value)) > cfg.max_size_bytes
             THEN /\ last' = [op |-> "put", ok |-> FALSE]
                  /\ pc'[t] = "idle"
                  /\ tiers' = tiers /\ stats' = stats /\ lock' = lock
             ELSE /\ pc'[t] # "idle"
                  /\ req'[t].size = value.len
                  /\ last' = last]_vars

\* C14 witness: on a cache holding an entry, a put of max_size_bytes + 1
\* bytes was refused (the entry is still there), and a put of exactly
\* max_size_bytes bytes is in its locked section.
C14_Witness ==
    /\ last = [op |-> "put", ok |-> FALSE]
    /\ stats.entry_count = 1 /\ Cardinality(DOMAIN tiers[0]) = 1
    /\ stats.evictions = 0
    /\ pc["t1"] = "evict_count" /\ req["t1"].size = cfg.max_size_bytes

\* C15: a get that finds an unexpired entry whose payload the codec cannot
\* decode returns absent and is counted as a miss: misses grows by one and
\* hits does not grow.
C15_DecodeFailureIsMiss ==
    [][\A t \in Threads, path \in Paths, provider \in FaultProviders,
          settings \in Options :
          (/\ Get(t, path, provider, settings)
           /\ FirstUsable(tiers, GetKey(path, provider, settings), now) >= 0
           /\ Decompress(tiers[FirstUsable(tiers, GetKey(path, provider, settings), now)]
                              [GetKey(path, provider, settings)].value) = << >>)
          => /\ last'.value = << >>
             /\ stats'.misses = stats.misses + 1
             /\ stats'.hits = stats.hits]_vars

\* the part of C15 that holds: such a get returns absent
C15_DecodeFailureIsAbsent ==
    [][\A t \in Threads, path \in Paths, provider \in FaultProviders,
          settings \in Options :
          (/\ Get(t, path, provider, settings)
           /\ FirstUsable(tiers, GetKey(path, provider, settings), now) >= 0
           /\ Decompress(tiers[FirstUsable(tiers, GetKey(path, provider, settings), now)]
                              [GetKey(path, provider, settings)].value) = << >>)
          => last'.value = << >>]_vars

\* the ttl the caller asked for: the argument when one is given, else the
\* cache's default_ttl
RequestedTtl(ttl) == IF ttl # NoTtl THEN ttl ELSE cfg.default_ttl

\* C16: the entry put builds, and then stores, carries the explicit ttl
\* argument whenever one is given, 0 included, and the cache's default_ttl
\* only when none is given.
C16_ExplicitTtlKept ==
    [][\A t \in Threads, path \in Paths, provider \in FaultProviders,
          settings \in Options, value \in FaultValues, ttl \in FaultTtlArgs :
          (PutBegin(t, path, provider, settings, value, ttl) /\ pc'[t] # "idle")
          => req'[t].entry.ttl = RequestedTtl(ttl)]_vars

\* the part of C16 that holds: a positive ttl argument is kept, no argument
\* means default_ttl, and the write stores the entry as it was built
C16_PositiveTtlKept ==
    [][/\ \A t \in Threads, path \in Paths, provider \in FaultProviders,
            settings \in Options, value \in FaultValues, ttl \in FaultTtlArgs \ {0} :
            (PutBegin(t, path, provider, settings, value, ttl) /\ pc'[t] # "idle")
            => req'[t].entry.ttl = RequestedTtl(ttl)
       /\ \A t \in Threads :
            (Store(t) /\ last'.ok) => tiers'[0][req[t].key_str] = req[t].entry]_vars

\* two options maps with the same items, whatever their order
SameOptions(m1, m2) ==
    {m1[i] : i \in 1 .. Len(m1)} = {m2[i] : i \in 1 .. Len(m2)}

\* the key a construction that shares no memo builds from the same file
\* content: it hashes the file
IndependentKey(path, provider, settings) ==
    KeyFromFile(EmptyMap, path, provider, settings).key

\* the memo holds nothing for the file's current (path, mtime, size), or holds
\* the hash of the file's current content
MemoFresh(path) ==
    LET ck == <<path, files[path].meta>> IN
    ck \in DOMAIN memo => memo[ck] = files[path].content

C18_RoundTrip ==
    [][Deserialize => last'.back = last'.entry]_vars

\* the part of C18 that holds: the key and the bookkeeping fields are always
\* reproduced, and so is a value that has to_dict or that json can dump
C18_RoundTripNative ==
    [][Deserialize =>
          /\ [last'.back EXCEPT !.value = 0] = [last'.entry EXCEPT !.value = 0]
          /\ (HasToDict(last'.entry.value) \/ JsonSerializable(last'.entry.value))
                => last'.back = last'.entry]_vars

\* a stored key of three segments that passes the filters of an invalidate
WellFormedMatch(key_str, file_path, provider) ==
    /\ Len(key_str) = 3
    /\ provider = NoProvider \/ <<key_str[2]>> = provider
    /\ file_path = None \/ key_str[1] = HashFile(memo, file_path).hash

LockedCallStep ==
    \/ \E t \in Threads, path \in Paths, provider \in Providers, settings \in Options :
          Get(t, path, provider, settings)
    \/ \E t \in Threads, file_path \in Paths \cup {None},
          provider \in Providers \cup {NoProvider} :
          Invalidate(t, file_path, provider)
    \/ \E t \in Threads : Clear(t)

\* C20: tier 0 and the stats change only inside a section that holds the
\* lock: in a step of the put that owns it, or in a whole get, invalidate or
\* clear that runs while no thread owns it.  So no update is lost: every get
\* adds exactly one to hits + misses and nothing else but clear changes that
\* sum; every successful write adds one to entry_count, every eviction step
\* takes from entry_count what it adds to evictions, and a failed write
\* leaves entry_count alone.
C20_StatsUpdatesUnderLock ==
    [][/\ (tiers'[0] # tiers[0] \/ stats' # stats) =>
             \/ \E t \in Threads : lock = t /\ PutSectionStep(t)
             \/ lock = NoThread /\ LockedCallStep
       /\ \A t \in Threads, path \in Paths, provider \in Providers, settings \in Options :
             Get(t, path, provider, settings)
             => stats'.hits + stats'.misses = stats.hits + stats.misses + 1
       /\ (stats'.hits + stats'.misses # stats.hits + stats.misses) => LockedCallStep
       /\ \A t \in Threads :
             /\ Store(t) => stats'.entry_count
                               = stats.entry_count + (IF last'.ok THEN 1 ELSE 0)
             /\ (EvictCountStep(t) \/ EvictSizeStep(t))
                   => stats.entry_count - stats'.entry_count
                         = stats'.evictions - stats.evictions]_vars

\* C20 witness: after a get, one thread is inside put's locked section and
\* the other thread's put waits for the lock.
C20_Witness ==
    /\ stats.hits + stats.misses = 1
    /\ lock = "t1" /\ pc["t1"] = "store"
    /\ pc["t2"] = "put_wait"

\* a key that put builds (and get promotes) for some file, provider name and
\* options map
PutMadeKey(key_str) ==
    \E h \in Hashes, provider \in ColonProviders, settings \in OptionMaps :
        key_str = KeyStr(h, provider, SettingsHash(settings))

\* C21: after invalidate() with neither path nor provider no tier holds an
\* entry that put or promotion stored, whatever the provider name it was
\* stored under.
C21_InvalidateAllClears ==
    [][\A t \in Threads :
          Invalidate(t, None, NoProvider) =>
             \A i \in ActiveTiers : \A k \in DOMAIN tiers'[i] : ~PutMadeKey(k)]_vars

\* the part of C21 that holds: every entry whose provider name has no ':' is
\* gone from every tier
C21_InvalidateAllClearsPlain ==
    [][\A t \in Threads :
          Invalidate(t, None, NoProvider) =>
             \A i \in ActiveTiers : \A k \in DOMAIN tiers'[i] : Len(k) # 3]_vars

\* C22: one call of _evict_one, made by either capacity loop, removes at most
\* one key from tier 0, a least recently used one, and touches no other
\* entry and no other tier.  When it removed a key it took one from
\* entry_count, the victim's size from size_bytes and added one to evictions;
\* when it removed none (tier 0 empty, victim not fetched, delete refused) the
\* stats are unchanged and it returned false, which ends the size loop.
C22_EvictOneFrame ==
    [][\A t \in Threads :
          (\/ EvictCountStep(t) /\ stats.entry_count >= cfg.max_entries
           \/ EvictSizeStep(t)
                 /\ stats.size_bytes + req[t].size > cfg.max_size_bytes)
          => LET gone == DOMAIN tiers[0] \ DOMAIN tiers'[0] IN
             /\ DOMAIN tiers'[0] \subseteq DOMAIN tiers[0]
             /\ \A k \in DOMAIN tiers'[0] : tiers'[0][k] = tiers[0][k]
             /\ \A i \in ActiveTiers \ {0} : tiers'[i] = tiers[i]
             /\ IF gone = {}
                THEN /\ stats' = stats
                     /\ pc[t] = "evict_size" => pc'[t] = "store"
                ELSE /\ \E v \in LeastRecentlyTouched(tiers[0]) :
                           /\ gone = {v}
                           /\ stats' = [stats EXCEPT
                                           !.evictions = @ + 1,
                                           !.entry_count = @ - 1,
                                           !.size_bytes = @ - tiers[0][v].size]
                     /\ pc'[t] = pc[t]]_vars

\* C22 witness: a put's size loop evicted one entry, then a second call of
\* _evict_one was refused by the tier: the put is about to write although
\* tier 0 is not empty and the new entry does not fit.
C22_Witness ==
    /\ pc["t1"] = "store"
    /\ stats.evictions = 1
    /\ DOMAIN tiers[0] # {}
    /\ stats.size_bytes + req["t1"].size > cfg.max_size_bytes

\* C23: a call of stop() on a running consumer returns: once stop() has put
\* the sentinel and waits, the run loop eventually receives it, flushes the
\* batch and exits, stop() returns and _running is false, whatever the
\* configuration, the queue's filling and the producers do meanwhile.
C23_StopReturns ==
    (stopper = "waiting") ~> (stopper = "returned" /\ ~consumer.running)

\* C23, the part that holds: stop() returns whenever later events cannot push
\* the sentinel out, that is on a queue that drops the newest event or raises
\* QueueFull.
C23_StopReturnsUnlessEvicted ==
    (stopper = "waiting"
        /\ ~(econf.queue_kind = "created" /\ econf.drop_policy = "oldest"))
      ~> (stopper = "returned" /\ ~consumer.running)

\* C23, the part that holds: the step that receives the sentinel passes the
\* pending batch to on_batch, leaves _running false and sets _stopped.
C23_SentinelFlushes ==
    [][(Dequeue /\ Head(queue) = StopSentinel)
          => /\ batches' = IF CoalesceBatch(consumer) = << >> THEN batches
                           ELSE Append(batches, CoalesceBatch(consumer))
             /\ ~consumer'.running
             /\ consumer'.stopped = "set"
             /\ consumer'.pc = "exited"]_vars

\* C24: a queue made by create_queue never holds more than max_queue_size
\* items, whatever is put and taken; a put on the full queue removes the
\* earliest item and appends the event under policy 'oldest', and leaves the
\* queue as it was under policy 'newest'; a put on a queue with room appends.
C24_QueueBounded ==
    /\ [](econf.queue_kind = "created" => Len(queue) <= econf.max_queue_size)
    /\ [][\A kind \in EventKinds :
             ((Emit(kind) \/ EmitAwait(kind)) /\ econf.queue_kind = "created")
                => LET event == NewEvent(produced + 1, kind) IN
                   IF Len(queue) < econf.max_queue_size
                   THEN queue' = Append(queue, event)
                   ELSE IF econf.drop_policy = "oldest"
                        THEN queue' = Append(Tail(queue), event)
                        ELSE queue' = queue]_vars

\* C24 witness: nothing was taken from a created queue under policy 'oldest',
\* every event was offered, the queue is full and its first event is gone.
C24_Witness ==
    /\ econf.queue_kind = "created"
    /\ econf.drop_policy = "oldest"
    /\ consumer.pc = "new"
    /\ stopper = "idle"
    /\ produced = MaxEvents
    /\ Len(queue) = econf.max_queue_size
    /\ queue[1].id > 1

IsProgress(event) == event.type = "stage_progress"
IsOther(event) == ~IsProgress(event)
NonProgress(events) == SelectSeq(events, IsOther)

\* C25: the non-progress events of every batch passed to on_batch are the
\* non-progress events dequeued during that batch's interval, each once and in
\* the order of their dequeueing, with coalesce_progress on or off; the ones
\* dequeued since the last call wait in _batch in that order, and a waiting
\* batch is eventually passed on.
C25_NonProgressInOrder ==
    /\ [](/\ Len(dequeued) = Len(batches) + 1
          /\ \A i \in 1 .. Len(batches) :
                NonProgress(batches[i]) = NonProgress(dequeued[i])
          /\ NonProgress(consumer.batch) = NonProgress(dequeued[Len(dequeued)]))
    /\ (consumer.batch # << >>) ~> (consumer.batch = << >>)

\* C25 witness: with coalescing on, a batch carried two non-progress events
\* and fewer events than were dequeued for it.
C25_Witness ==
    /\ econf.coalesce_progress
    /\ \E i \in 1 .. Len(batches) :
          /\ Len(NonProgress(batches[i])) >= 2
          /\ Len(dequeued[i]) > Len(batches[i])

ProgressOf(events, stage) ==
    SelectSeq(events, LAMBDA e : IsProgress(e) /\ e.stage = stage)
AllProgress(events) == SelectSeq(events, IsProgress)

\* C26: with coalesce_progress on, a batch passed to on_batch holds for every
\* stage at most one stage_progress event, the last one dequeued for that
\* stage in the batch's interval, and holds one whenever one was dequeued;
\* with coalesce_progress off it holds every progress event dequeued in the
\* interval, in order.
C26_LatestProgressPerStage ==
    \A i \in 1 .. Len(batches) :
       IF econf.coalesce_progress
       THEN \A stage \in Stages :
               LET taken == ProgressOf(dequeued[i], stage) IN
               ProgressOf(batches[i], stage) =
                   IF taken = << >> THEN << >> ELSE << taken[Len(taken)] >>
       ELSE AllProgress(batches[i]) = AllProgress(dequeued[i])

\* C26 witness: with coalescing on, two progress events of stage s1 and one
\* of stage s2 were dequeued in one interval and its batch was delivered.
C26_Witness ==
    /\ econf.coalesce_progress
    /\ \E i \in 1 .. Len(batches) :
          /\ Len(ProgressOf(dequeued[i], "s1")) >= 2
          /\ Len(ProgressOf(dequeued[i], "s2")) >= 1
          /\ Len(AllProgress(batches[i])) = 2

\* C26 witness of the other half: with coalescing off, two progress events of
\* one stage were delivered in one batch.
C26_WitnessUncoalesced ==
    /\ ~econf.coalesce_progress
    /\ \E i \in 1 .. Len(batches) : Len(ProgressOf(batches[i], "s1")) >= 2

\* C27: apply_event does not change any object that existed before the call,
\* the input AppState and the lists and dicts it holds included; for a known
\* event type the update is in a new AppState, which is the one returned,
\* and for an unknown type the input state itself is returned.
C27_InputNotMutated ==
    [][\A type \in EventTypes \cup {"unknown_type"}, stage \in {"s1", None} :
          \A data \in EventData(type) :
             Dispatch(type, stage, data)
                => /\ Len(heap') > Len(heap)
                   /\ \A r \in 1 .. Len(heap) : heap'[r] = heap[r]
                   /\ IF type \in EventTypes
                      THEN /\ app' = Len(heap')
                           /\ app' > Len(heap) + 1
                           /\ heap'[app'].cls = "AppState"
                      ELSE /\ app' = app
                           /\ Len(heap') = Len(heap) + 1]_vars

\* C27 witness: an artifact event was applied to a state made by an earlier
\* event: the current state lists the artifact, the first state's list is empty.
C27_Witness ==
    /\ app # InitApp
    /\ heap[app].val.is_running
    /\ heap[heap[app].val.artifacts].val # << >>
    /\ heap[heap[InitApp].val.artifacts].val = << >>

\* state.logs of the current AppState
Logs == heap[heap[app].val.logs].val
KeepHead == LogRingSize \div 4
Markers(items) == {i \in 1 .. Len(items) : IsMarker(items[i])}

\* C28: after any sequence of log, warning and error events state.logs has at
\* most LogRingSize elements (2000 in the program, and KeepHead is its 500);
\* until the ring overflows it holds every entry logged, and from the first
\* truncation on its first KeepHead elements are the first KeepHead entries
\* ever logged, the element after them is a truncation marker, the only one,
\* and its last element is the entry logged last.
C28_RingKeepsHeadAndTail ==
    /\ Len(Logs) <= LogRingSize
    /\ IF Len(logged) <= LogRingSize
       THEN Logs = logged
       ELSE /\ SubSeq(Logs, 1, KeepHead) = SubSeq(logged, 1, KeepHead)
            /\ Markers(Logs) = {KeepHead + 1}
            /\ ~IsMarker(Logs[Len(Logs)])
            /\ Logs[Len(Logs)] = logged[Len(logged)]

\* C28 witness: the ring was truncated more than once and is full.
C28_Witness ==
    /\ Len(logged) = LogRingSize + MaxOverflow
    /\ Len(Logs) = LogRingSize
    /\ IsMarker(Logs[KeepHead + 1])
    /\ \E i \in 1 .. Len(logged) : logged[i].type = "error"

\* the entries logged that state.logs no longer holds
Dropped == Len(logged) - (Len(Logs) - Cardinality(Markers(Logs)))

\* C29: whenever the ring holds a truncation marker, the marker's count is
\* the number of items dropped from the ring so far.
C29_MarkerCountsDropped ==
    \A i \in Markers(Logs) : Logs[i].count = Dropped

\* C29, the part that holds: the marker written by the first truncation
\* counts the two items dropped by it, and every later marker still says two.
C29_MarkerCountIsTwo ==
    /\ \A i \in Markers(Logs) : Logs[i].count = 2
    /\ Len(logged) = LogRingSize + 1 => Dropped = 2

\* the stats record more entries and more bytes than tier `b` holds
Exceeds(b, st) ==
    st.entry_count > Cardinality(DOMAIN b) /\ st.size_bytes > TotalSize(b)

\* this get finds an expired entry under its key in tier 0
PurgesFromTier0(path, provider, settings) ==
    LET key == GetKey(path, provider, settings) IN
    key \in DOMAIN tiers[0] /\ IsExpired(tiers[0][key], now)

MaxVictimTime == 1
VictimNow == MaxVictimTime + 1
VictimTtls == {NoTtl, 0, 1, 2}
StoredKeys == {KeyStr("h1", <<"A">>, "o1"), KeyStr("h2", <<"A">>, "o1")}
\* a key of the key set that the tier does not resolve
AbsentKey == KeyStr("h1", <<"B">>, "o1")
VictimKeys == StoredKeys \cup {AbsentKey}
VictimEntries ==
    {[value |-> "v1", size |-> s, created_at |-> c, accessed_at |-> a,
      access_count |-> n, ttl |-> ttl] :
        s \in {1, 2}, c \in 0 .. MaxVictimTime, a \in 0 .. MaxVictimTime,
        n \in {0, 1}, ttl \in VictimTtls}
VictimTiers ==
    UNION {[D -> {e \in VictimEntries : e.created_at <= e.accessed_at}] :
              D \in SUBSET StoredKeys}
Orders(S) == {s \in UNION {[1 .. n -> S] : n \in {Cardinality(S)}} :
                 \A i, j \in DOMAIN s : i # j => s[i] # s[j]}

InitVictim ==
    /\ cfg \in [ntiers : {1}, max_entries : {MaxEntriesBound},
                max_size_bytes : {MaxSizeBytes}, default_ttl : {NoTtl},
                faults : {FALSE}, horizon : {VictimNow}, ordered : BOOLEAN]
    /\ \E b \in VictimTiers : tiers = [i \in TierIdx |-> IF i = 0 THEN b ELSE EmptyMap]
    /\ order \in (IF cfg.ordered THEN Orders(DOMAIN tiers[0]) ELSE {<< >>})
    /\ stats = ZeroStats
    /\ lock = NoThread
    /\ pc = [t \in Threads |-> "idle"]
    /\ req = [t \in Threads |-> NoReq]
    /\ now = VictimNow
    /\ files = [p \in Paths |-> [content |-> IF p = "a.mp3" THEN "h1" ELSE "h2",
                                 meta |-> "m1"]]
    /\ memo = EmptyMap
    /\ last = [op |-> "none"]
    /\ snap = NoSnap
    /\ InitTui({DefaultConsumerConfig})

\* one call per behaviour: the selectors change nothing, so a second call
\* would see the same arguments
Selected(policy, keys, victim) ==
    /\ last.op = "none"
    /\ last' = [op |-> "select", policy |-> policy, keys |-> keys, victim |-> victim]
    /\ UNCHANGED <<tuiVars, cfg, tiers, stats, lock, pc, req, now, files, memo,
                   snap, order>>

SelectLru(keys) ==
    \E victim \in {SelectLruVictim(BackendOrder(tiers[0]), tiers[0], keys)} :
        Selected("lru", keys, victim)

SelectLfu(keys) ==
    \E victim \in SelectLfuVictim(tiers[0], keys) : Selected("lfu", keys, victim)

SelectTtl(keys) ==
    \E victim \in SelectTtlVictim(tiers[0], keys, now) : Selected("ttl", keys, victim)

SelectSize(keys) ==
    \E victim \in SelectSizeVictim(tiers[0], keys) : Selected("size", keys, victim)

SelectFifo(keys) ==
    \E victim \in SelectFifoVictim(tiers[0], keys) : Selected("fifo", keys, victim)

KeySets == SUBSET VictimKeys \ {{}}

NextVictim ==
    \/ \E keys \in KeySets : SelectLru(keys)
    \/ \E keys \in KeySets : SelectLfu(keys)
    \/ \E keys \in KeySets : SelectTtl(keys)
    \/ \E keys \in KeySets : SelectSize(keys)
    \/ \E keys \in KeySets : SelectFifo(keys)

SpecVictim == InitVictim /\ [][NextVictim]_vars

(* ------------------------------- C31 ----------------------------------- *)
\* the call of the given selector that `last` records
SelectedBy(policy) == last.op = "select" /\ last.policy = policy

\* the entry has a ttl, as CacheEntry.is_expired reads it: ttl is not None
HasTtl(e) == e.ttl # NoTtl

\* the resolvable keys of the recorded key set whose entry has a ttl
KeysWithTtl == {k \in Resolvable(tiers[0], last.keys) : HasTtl(tiers[0][k])}

\* C31: select_ttl_victim returns a key with the minimum remaining lifetime
\* (ttl minus age) among the entries that have a TTL; an entry without a TTL
\* is returned only when no entry of the key set has a TTL.
C31_TtlVictimMinRemaining ==
    (SelectedBy("ttl") /\ KeysWithTtl # {}) =>
        /\ last.victim \in KeysWithTtl
        /\ \A j \in KeysWithTtl :
               Remaining(tiers[0][last.victim], now) <= Remaining(tiers[0][j], now)

\* what the code does: the same, with "has a TTL" read as "ttl is neither
\* None nor 0"
KeysWithTruthyTtl == {k \in Resolvable(tiers[0], last.keys) : TtlTruthy(tiers[0][k])}
C31_TtlVictimMinAmongTruthy ==
    (SelectedBy("ttl") /\ KeysWithTruthyTtl # {}) =>
        /\ last.victim \in KeysWithTruthyTtl
        /\ \A j \in KeysWithTruthyTtl :
               Remaining(tiers[0][last.victim], now) <= Remaining(tiers[0][j], now)

(* ---------------- tier 0 on an insertion-ordered backend ---------------- *)
(* One caller; tier 0 keeps its entries in an OrderedDict named `_cache`,   *)
(* which select_lru_victim reads directly.                                  *)
OrderedValues == {[data |-> d, len |-> n] : d \in Data, n \in {1, MaxSizeBytes - 1}}

InitOrdered ==
    InitWith([ntiers : 1 .. NumTiers, max_entries : {MaxEntriesBound},
              max_size_bytes : {MaxSizeBytes}, default_ttl : {NoTtl},
              faults : {FALSE}, horizon : {MaxTime},
              ordered : {TRUE}])

NextOrdered ==
    \/ \E path \in Paths, provider \in FaultProviders, settings \in Options :
           Get("t1", path, provider, settings)
    \/ \E path \in Paths, provider \in FaultProviders, settings \in Options,
          value \in OrderedValues, ttl \in TtlArgs :
           PutBegin("t1", path, provider, settings, value, ttl)
    \/ EvictCountStep("t1")
    \/ EvictSizeStep("t1")
    \/ Store("t1")
    \/ \E file_path \in Paths : Invalidate("t1", file_path, NoProvider)
    \/ Sleep
    \/ \E i \in TierIdx, file_hash \in Hashes, provider \in FaultProviders,
          settings \in Options :
           SeedTier(i, file_hash, provider, settings)
    \/ \E i \in TierIdx, file_hash \in Hashes, provider \in FaultProviders,
          settings \in Options :
           SeedTierLarge(i, file_hash, provider, settings)

SpecOrdered == InitOrdered /\ [][NextOrdered]_vars

(* The same calls on a backend without `_cache`: one caller, one or two     *)
(* tiers, the lower one written by other processes as well.                 *)
InitTiers ==
    InitWith([ntiers : 1 .. NumTiers, max_entries : 1 .. MaxEntriesBound,
              max_size_bytes : {MaxSizeBytes}, default_ttl : {NoTtl, TtlSeconds},
              faults : {FALSE}, horizon : {MaxTime},
              ordered : {FALSE}])

SpecTiers == InitTiers /\ [][NextOrdered]_vars

(* ------------------------------- C32 ----------------------------------- *)
\* select_lru_victim as _evict_one calls it on tier 0 now
LruVictimNow ==
    SelectLruVictim(BackendOrder(tiers[0]), tiers[0], BackendKeys(tiers[0]))

\* the O(n) scan of select_lru_victim on the same tier and keys
LruScanNow == SelectLruVictim(<< >>, tiers[0], BackendKeys(tiers[0]))

\* C32: select_lru_victim returns the key of the entry with the oldest
\* accessed_at among the given keys, and on an insertion-ordered backend its
\* O(1) shortcut (first key of the backend's ordered map) returns the same
\* key as the O(n) scan for the minimum accessed_at, after any sequence of
\* puts, get hits and promotions.
C32_ShortcutIsOldestAccessed ==
    (cfg.ordered /\ BackendKeys(tiers[0]) # {}) =>
        /\ LruVictimNow \in LeastRecentlyTouched(tiers[0])
        /\ LruVictimNow = LruScanNow

(* ------------------------------- C33 ----------------------------------- *)
\* the recorded victim is resolvable and no resolvable key of the recorded
\* key set has less of `field`
MinOf(field) ==
    /\ last.victim \in Resolvable(tiers[0], last.keys)
    /\ \A j \in Resolvable(tiers[0], last.keys) :
           tiers[0][last.victim][field] <= tiers[0][j][field]

MaxOf(field) ==
    /\ last.victim \in Resolvable(tiers[0], last.keys)
    /\ \A j \in Resolvable(tiers[0], last.keys) :
           tiers[0][j][field] <= tiers[0][last.victim][field]

VictimAsPolicySays ==
    /\ last.victim \in last.keys
    /\ Resolvable(tiers[0], last.keys) # {} =>
          /\ last.policy = "lfu" => MinOf("access_count")
          /\ last.policy = "size" => MaxOf("size")
          /\ last.policy = "fifo" => MinOf("created_at")

\* C33: for a non-empty key set every victim selector (LRU, LFU, TTL, Size,
\* FIFO) returns a member of the key set it was given: LFU a key with minimum
\* access_count, Size a key with maximum size, FIFO a key with minimum
\* created_at, and an arbitrary member of the set when no entry is resolvable.
C33_VictimInKeySet == last.op = "select" => VictimAsPolicySays

\* the same for every call but select_lru_victim on a backend that has an
\* OrderedDict `_cache`
C33_VictimInKeySetUnlessShortcut ==
    (last.op = "select" /\ ~(last.policy = "lru" /\ cfg.ordered)) => VictimAsPolicySays

(* ------------------------------- C34 ----------------------------------- *)
\* a step of put by thread t: building the entry, taking the lock, one round
\* of either capacity loop, the write
PutStep(t) ==
    \/ \E path \in Paths, provider \in Providers, settings \in Options,
          value \in Values, ttl \in TtlArgs :
           PutBegin(t, path, provider, settings, value, ttl)
    \/ PutAcquire(t)
    \/ PutSectionStep(t)

\* C34: put, including every eviction it triggers, writes and deletes only in
\* tier 0: the contents of tiers 1..N are the same after any put as before it.
C34_PutChangesTier0Only ==
    [][\A t \in Threads :
          PutStep(t) => \A i \in TierIdx \ {0} : tiers'[i] = tiers[i]]_vars

\* C34 witness: on a two-tier cache whose lower tier holds an entry, a put
\* that evicted from tier 0 has written its entry
C34_Witness ==
    /\ cfg.ntiers = 2 /\ tiers[1] # EmptyMap
    /\ last.op = "put" /\ last.ok
    /\ stats.evictions > 0
    /\ DOMAIN tiers[0] # DOMAIN tiers[1]

(* ------------------------------- C35 ----------------------------------- *)
EntriesIn(b) == Cardinality(BackendKeys(b))

\* C35: after any sequence of get, put and invalidate calls on a cache with
\* one or more tiers, including gets that promote an entry from a lower tier,
\* tier 0 never holds more than max_entries entries.
C35_Tier0WithinMaxEntries == EntriesIn(tiers[0]) <= cfg.max_entries

\* what put alone guarantees: its write does not take tier 0 above max_entries
\* when the stats count at least the entries that tier 0 holds
C35_PutKeepsWithinMaxEntries ==
    [][\A t \in Threads :
          (Store(t) /\ stats.entry_count >= EntriesIn(tiers[0]))
          => EntriesIn(tiers'[0]) <= cfg.max_entries]_vars

(* ------------------------------- C36 ----------------------------------- *)
\* C36: stats.entry_count and stats.size_bytes are never negative after any
\* sequence of get, put, invalidate and eviction on a cache with one or more
\* tiers, including tiers that were seeded externally and entries that
\* reached tier 0 by promotion.
C36_StatsNonNegative == stats.entry_count >= 0 /\ stats.size_bytes >= 0

\* the half of C36 about size_bytes
C36_SizeBytesNonNegative == stats.size_bytes >= 0

(* ------------------------------- C37 ----------------------------------- *)
\* the instants up to which the entries of the model are looked at
Instants == 0 .. (MaxTime + TtlSeconds + 1)

\* C37: promotion does not extend an entry's life: the copy written to the
\* higher tiers keeps the original created_at and ttl, so get treats a
\* promoted copy as expired at the same instant at which it would treat the
\* original as expired.
C37_PromotionKeepsLifetime ==
    [][\A t \in Threads, path \in Paths, provider \in Providers, settings \in Options :
          LET key == GetKey(path, provider, settings)
              from_level == FirstUsable(tiers, key, now)
          IN (GetStep(t, path, provider, settings) /\ from_level > 0) =>
                \A j \in 0 .. (from_level - 1) :
                   /\ BackendHas(tiers'[j], key)
                   /\ tiers'[j][key].created_at = tiers[from_level][key].created_at
                   /\ tiers'[j][key].ttl = tiers[from_level][key].ttl
                   /\ \A at \in Instants :
                         IsExpired(tiers'[j][key], at)
                            <=> IsExpired(tiers[from_level][key], at)]_vars

\* C37 witness: a get promoted an entry with a ttl at the last instant of its
\* life; one instant later the copy in tier 0 is expired, as is the original
C37_Witness ==
    /\ last.op = "get" /\ last.hit = 1
    /\ \E k \in DOMAIN tiers[0] :
          /\ k \in DOMAIN tiers[1]
          /\ tiers[0][k].ttl = TtlSeconds
          /\ tiers[0][k].accessed_at = now - 1
          /\ tiers[0][k].created_at = now - 1 - TtlSeconds
          /\ IsExpired(tiers[0][k], now) /\ IsExpired(tiers[1][k], now)
          /\ ~IsExpired(tiers[0][k], now - 1)

(* ------------------------------- C38 ----------------------------------- *)
\* the write of a put by thread t that succeeds, for a key that tier 0 held
\* when the put took the lock, the stats then matching tier 0
RePutWrite(t) ==
    /\ Store(t) /\ last'.ok
    /\ BackendHas(snap.tier0, req[t].key_str)
    /\ Consistent(snap.tier0, snap.stats)

\* C38: a put for a key that is already present in tier 0 replaces that entry
\* (a following get returns the new value) and afterwards stats.entry_count
\* still equals the number of keys in tier 0 and stats.size_bytes still
\* equals the total size of the entries in tier 0.
C38_RePutKeepsStats ==
    [][\A t \in Threads :
          RePutWrite(t) =>
             /\ tiers'[0][req[t].key_str] = req[t].entry
             /\ Consistent(tiers'[0], stats')]_vars

\* what the code does: the entry is replaced, and when the old entry was
\* still in tier 0 at the write (no eviction took it) it stays counted: the
\* stats are one entry and the old entry's size above tier 0
C38_RePutCountsAgain ==
    [][\A t \in Threads :
          RePutWrite(t) =>
             LET key == req[t].key_str IN
             /\ tiers'[0][key] = req[t].entry
             /\ (BackendHas(tiers[0], key) /\ Consistent(tiers[0], stats)) =>
                   /\ stats'.entry_count = EntriesIn(tiers'[0]) + 1
                   /\ stats'.size_bytes = TotalSize(tiers'[0]) + tiers[0][key].size
             /\ (~BackendHas(tiers[0], key) /\ Consistent(tiers[0], stats)) =>
                   Consistent(tiers'[0], stats')]_vars

(* ------------------------------- C39 ----------------------------------- *)
\* an invalidate on a single-tier cache whose stats matched tier 0, which
\* removed at least one entry
InvalidateRemoves(t, file_path, provider) ==
    /\ Invalidate(t, file_path, provider)
    /\ cfg.ntiers = 1
    /\ Consistent(tiers[0], stats)
    /\ DOMAIN tiers'[0] # DOMAIN tiers[0]

\* C39: after invalidate has removed entries from tier 0, stats.size_bytes
\* equals the total size of the entries that remain in tier 0 (on a
\* single-tier cache whose stats matched tier 0 before the call).
C39_InvalidateAdjustsSizeBytes ==
    [][\A t \in Threads, file_path \in Paths \cup {None},
          provider \in Providers \cup {NoProvider} :
          InvalidateRemoves(t, file_path, provider)
          => stats'.size_bytes = TotalSize(tiers'[0])]_vars

\* what the code does: entry_count follows the removal, size_bytes keeps the
\* bytes of the removed entries
C39_InvalidateKeepsSizeBytes ==
    [][\A t \in Threads, file_path \in Paths \cup {None},
          provider \in Providers \cup {NoProvider} :
          InvalidateRemoves(t, file_path, provider)
          => /\ stats'.entry_count = EntriesIn(tiers'[0])
             /\ stats'.size_bytes = stats.size_bytes
             /\ stats'.size_bytes > TotalSize(tiers'[0])]_vars

(* ------------------ the memo under two threads, step by step ------------ *)
(* get and invalidate(file_path) with every access to                       *)
(* CacheKey._file_hash_cache as a step of its own: the dict belongs to the  *)
(* class, key construction runs before `with self._lock`, and               *)
(* clear_hash_cache runs inside it.                                         *)

\* get, line 490: from_file calls _hash_file, which starts with os.stat
HashFileStat(t, path, provider, settings) ==
    /\ pc[t] = "idle"
    /\ now < cfg.horizon
    /\ req' = [req EXCEPT ![t] = [op |-> "get", path |-> path, provider |-> provider,
                                  settings |-> settings,
                                  cache_key |-> <<path, files[path].meta>>,
                                  file_hash |-> None]]
    /\ pc' = [pc EXCEPT ![t] = "hash_lookup"]
    /\ UNCHANGED <<tuiVars, cfg, tiers, stats, lock, now, files, memo, last, snap, order>>

\* _hash_file: `if cache_key in cls._file_hash_cache`
HashFileLookup(t) ==
    /\ pc[t] = "hash_lookup"
    /\ pc' = [pc EXCEPT ![t] = IF req[t].cache_key \in DOMAIN memo
                               THEN "hash_return" ELSE "hash_digest"]
    /\ UNCHANGED <<tuiVars, cfg, tiers, stats, lock, req, now, files, memo, last, snap,
                   order>>

\* _hash_file: `return cls._file_hash_cache[cache_key]`, a KeyError when the
\* key has gone since the test
HashFileReturn(t) ==
    /\ pc[t] = "hash_return"
    /\ IF req[t].cache_key \in DOMAIN memo
       THEN /\ req' = [req EXCEPT ![t].file_hash = memo[req[t].cache_key]]
            /\ pc' = [pc EXCEPT ![t] = "get_locked"]
            /\ UNCHANGED last
       ELSE /\ req' = [req EXCEPT ![t] = NoReq]
            /\ pc' = [pc EXCEPT ![t] = "idle"]
            /\ last' = [op |-> "get", raised |-> "KeyError"]
    /\ UNCHANGED <<tuiVars, cfg, tiers, stats, lock, now, files, memo, snap, order>>

\* _hash_file: the file is read and digested
HashFileDigest(t) ==
    /\ pc[t] = "hash_digest"
    /\ req' = [req EXCEPT ![t].file_hash = files[req[t].path].content]
    /\ pc' = [pc EXCEPT ![t] = "hash_store"]
    /\ UNCHANGED <<tuiVars, cfg, tiers, stats, lock, now, files, memo, last, snap, order>>

\* _hash_file: `cls._file_hash_cache[cache_key] = file_hash`
HashFileStore(t) ==
    /\ pc[t] = "hash_store"
    /\ memo' = MapPut(memo, req[t].cache_key, req[t].file_hash)
    /\ pc' = [pc EXCEPT ![t] = "get_locked"]
    /\ UNCHANGED <<tuiVars, cfg, tiers, stats, lock, req, now, files, last, snap, order>>

\* get, from `with self._lock:` to its return
GetLocked(t) ==
    /\ pc[t] = "get_locked"
    /\ CanAcquire(t)
    /\ LET r == req[t]
           w == GetWalk(0, tiers, KeyStr(r.file_hash, r.provider, SettingsHash(r.settings)),
                        now)
       IN /\ tiers' = w.tiers
          /\ stats' = CountLookup(stats, w.hit)
          /\ last' = [op |-> "get", hit |-> w.hit, value |-> w.value]
    /\ pc' = [pc EXCEPT ![t] = "idle"]
    /\ req' = [req EXCEPT ![t] = NoReq]
    /\ now' = now + 1
    /\ UNCHANGED <<tuiVars, cfg, lock, files, memo, snap>>
    /\ order' = OrderAfter(tiers[0], tiers'[0], {})

\* invalidate(file_path), from `with self._lock:` through phases 1 and 2 to
\* the start of the list comprehension of clear_hash_cache: the iterator over
\* the memo's keys remembers the dict's size
InvalidateLocked(t, file_path) ==
    /\ pc[t] = "idle"
    /\ now < cfg.horizon
    /\ CanAcquire(t)
    /\ LET hashed == ReachesPathFilter(tiers, NoProvider)
           hf == IF hashed THEN HashFile(memo, file_path)
                 ELSE [hash |-> None, memo |-> memo]
           keys_to_delete == KeysToDelete(0, tiers, file_path, NoProvider, hf.hash)
           d == DeleteKeys(keys_to_delete, tiers, 0)
       IN /\ tiers' = d.tiers
          /\ stats' = [stats EXCEPT !.entry_count = @ - d.count]
          /\ memo' = hf.memo
          /\ req' = [req EXCEPT ![t] = [op |-> "invalidate", path |-> file_path,
                                        count |-> d.count,
                                        at_start |-> DOMAIN hf.memo,
                                        to_visit |-> DOMAIN hf.memo,
                                        keys_to_remove |-> {}]]
    /\ lock' = t
    /\ pc' = [pc EXCEPT ![t] = "clear_scan"]
    /\ UNCHANGED <<tuiVars, cfg, now, files, last, snap>>
    /\ order' = OrderAfter(tiers[0], tiers'[0], {})

\* clear_hash_cache, line 150: one round of the comprehension.  The dict
\* iterator raises RuntimeError when the dict has changed size since the
\* iteration began; the exception leaves invalidate and releases the lock.
ClearScan(t) ==
    /\ pc[t] = "clear_scan"
    /\ LET r == req[t] IN
       IF Cardinality(DOMAIN memo) # Cardinality(r.at_start)
       THEN /\ last' = [op |-> "invalidate", raised |-> "RuntimeError"]
            /\ lock' = NoThread
            /\ pc' = [pc EXCEPT ![t] = "idle"]
            /\ req' = [req EXCEPT ![t] = NoReq]
            /\ now' = now + 1
       ELSE IF r.to_visit = {}
       THEN /\ pc' = [pc EXCEPT ![t] = "clear_delete"]
            /\ UNCHANGED <<last, lock, req, now>>
       ELSE /\ \E key \in r.to_visit :
                 req' = [req EXCEPT ![t].to_visit = @ \ {key},
                                    ![t].keys_to_remove =
                                        IF key[1] = r.path THEN @ \cup {key} ELSE @]
            /\ UNCHANGED <<last, lock, pc, now>>
    /\ UNCHANGED <<tuiVars, cfg, tiers, stats, files, memo, snap, order>>

\* clear_hash_cache, lines 151-152: one `del`, and after the last one the
\* return of invalidate
ClearDelete(t) ==
    /\ pc[t] = "clear_delete"
    /\ LET r == req[t] IN
       IF r.keys_to_remove = {}
       THEN /\ last' = [op |-> "invalidate", count |-> r.count]
            /\ lock' = NoThread
            /\ pc' = [pc EXCEPT ![t] = "idle"]
            /\ req' = [req EXCEPT ![t] = NoReq]
            /\ now' = now + 1
            /\ UNCHANGED memo
       ELSE /\ \E key \in r.keys_to_remove :
                 /\ memo' = MapDel(memo, key)
                 /\ req' = [req EXCEPT ![t].keys_to_remove = @ \ {key}]
            /\ UNCHANGED <<last, lock, pc, now>>
    /\ UNCHANGED <<tuiVars, cfg, tiers, stats, files, snap, order>>

RaceValues == {[data |-> d, len |-> 1] : d \in Data}

InitRace ==
    InitWith([ntiers : {1}, max_entries : {MaxEntriesBound},
              max_size_bytes : {MaxSizeBytes}, default_ttl : {NoTtl},
              faults : {FALSE}, horizon : {MaxTimeThreads},
              ordered : {FALSE}])

NextRace ==
    \/ \E t \in Threads, path \in Paths, provider \in FaultProviders,
          settings \in Options :
           HashFileStat(t, path, provider, settings)
    \/ \E t \in Threads : HashFileLookup(t)
    \/ \E t \in Threads : HashFileReturn(t)
    \/ \E t \in Threads : HashFileDigest(t)
    \/ \E t \in Threads : HashFileStore(t)
    \/ \E t \in Threads : GetLocked(t)
    \/ \E t \in Threads, file_path \in Paths : InvalidateLocked(t, file_path)
    \/ \E t \in Threads : ClearScan(t)
    \/ \E t \in Threads : ClearDelete(t)
    \/ \E t \in Threads, path \in Paths, provider \in FaultProviders,
          settings \in Options, value \in RaceValues :
           PutBegin(t, path, provider, settings, value, NoTtl)
    \/ \E t \in Threads : PutAcquire(t)
    \/ \E t \in Threads : EvictCountStep(t)
    \/ \E t \in Threads : EvictSizeStep(t)
    \/ \E t \in Threads : Store(t)

SpecRace == InitRace /\ [][NextRace]_vars

(* ------------------------------- C40 ----------------------------------- *)
\* thread t reads or writes the memo on behalf of key construction: a step of
\* _hash_file in get, or the key construction of put as a whole
MemoAccess(t) ==
    \/ HashFileLookup(t) \/ HashFileReturn(t) \/ HashFileStore(t)
    \/ \E path \in Paths, provider \in FaultProviders, settings \in Options,
          value \in RaceValues :
           PutBegin(t, path, provider, settings, value, NoTtl)

\* thread u is inside clear_hash_cache
Clearing(u) == pc[u] \in {"clear_scan", "clear_delete"}

\* thread u has just returned from a clear-by-path without an exception
ClearReturns(u) == ClearDelete(u) /\ pc'[u] = "idle"

\* C40: the process-wide ContentHashMemo is never read or written by one
\* thread while another thread's clear_hash_cache is scanning or deleting
\* from it: the memo lookup and insert done by key construction in get and
\* put (before the cache lock is taken) cannot interleave with the memo clear
\* performed by invalidate, and no memo entry inserted for a path before a
\* clear-by-path started survives that clear.
C40_MemoClearExclusive ==
    [][\A t \in Threads :
          /\ MemoAccess(t) => \A u \in Threads \ {t} : ~Clearing(u)
          /\ ClearReturns(t) =>
                \A key \in req[t].at_start :
                   key[1] = req[t].path => key \notin DOMAIN memo']_vars

\* the half that holds: a clear-by-path that returns has deleted every entry
\* that the memo held for the path when the clear began
C40_ClearRemovesWhatItSaw ==
    [][\A t \in Threads :
          (ClearScan(t) /\ pc'[t] = "clear_delete") =>
             \A key \in req[t].at_start :
                key[1] = req[t].path => key \in req'[t].keys_to_remove]_vars

\* an invalidate never ends in the RuntimeError of a dict that changed size
\* while it was iterated
C40_InvalidateNeverRaises ==
    ~(last = [op |-> "invalidate", raised |-> "RuntimeError"])

\* a get never ends in the KeyError of a memo entry deleted between the
\* membership test and the read
C40_GetNeverRaises == ~(last = [op |-> "get", raised |-> "KeyError"])

====
